---- MODULE Spec2Model ----
(***************************************************************************)
(* Model of the NVR core: the per-camera ffmpeg supervisor                 *)
(* (recorder/camera_recorder.py), the two-tier retention sweeper           *)
(* (recorder/retention_manager.py), the RTSP credential sanitizer          *)
(* (log/rtsp_sanitizing_filter.py), the two loggers (log/logger.py,        *)
(* logging/logger.py) and the shutdown sequence of main() (nvr.py).        *)
(*                                                                         *)
(* The specifications of the module:                                       *)
(*   Spec         one CameraRecorder thread, its ffmpeg subprocesses and   *)
(*                a caller of CameraRecorder.stop                          *)
(*   FairSpec     Spec under a fair scheduler                              *)
(*   FaultSpec    Spec with a failing build_ffmpeg_command admitted        *)
(*   SweepSpec    the RetentionManager thread and the two storage trees    *)
(*   SanSpec      sanitize_rtsp_url applied to bounded input texts         *)
(*   PersistSpec  the text written to the per-camera log and to the        *)
(*                application log                                          *)
(*   ShutSpec     main() stopping and joining the threads it started       *)
(*   LockSpec     the threads that append to the application log           *)
(*   ConcSpec     three recorders and the sweeper running side by side     *)
(*   SingSpec     threads constructing the Singleton subclasses             *)
(* Text is modelled as sequences of one-character strings.                 *)
(***************************************************************************)
EXTENDS Integers, Sequences, FiniteSets, TLC

\* ------------------------------------------------------------------ bounds
MaxSpawn == 2        \* ffmpeg processes started in one run
MaxAttempts == 3     \* iterations of the supervisor loop in one run
MaxLines == 2        \* output lines one ffmpeg process writes
MaxStopCalls == 2    \* calls of CameraRecorder.stop in one run
StartClock == 2      \* clock reading when the sweeper is created, in days
MaxClock == 3        \* last clock reading of a run, in days
MaxCycles == 2       \* sweep cycles in one run
SleepTicks == 2      \* one-second steps of the inter-cycle wait that are modelled
MaxEnvOps == 1       \* outside events (file changes by others, I/O errors) in one run
MaxRawLines == 2     \* lines read from the subprocess in one run
MaxAppMsgs == 2      \* messages handed to the shared loggers in one run
MaxRecorders == 3    \* recorders started by main()
MaxCalls == 2        \* constructor calls one thread makes
MaxUnitLines == 1    \* unread lines a pipe holds when units run side by side

\* ------------------------------------------------------------- text helpers
IsInfix(sub, s) ==
    \E i \in 0..(Len(s) - Len(sub)) : SubSeq(s, i + 1, i + Len(sub)) = sub

UpperToLower ==
    "A" :> "a" @@ "B" :> "b" @@ "C" :> "c" @@ "D" :> "d" @@ "E" :> "e" @@
    "F" :> "f" @@ "G" :> "g" @@ "H" :> "h" @@ "I" :> "i" @@ "J" :> "j" @@
    "K" :> "k" @@ "L" :> "l" @@ "M" :> "m" @@ "N" :> "n" @@ "O" :> "o" @@
    "P" :> "p" @@ "Q" :> "q" @@ "R" :> "r" @@ "S" :> "s" @@ "T" :> "t" @@
    "U" :> "u" @@ "V" :> "v" @@ "W" :> "w" @@ "X" :> "x" @@ "Y" :> "y" @@
    "Z" :> "z"

\* str.lower() of camera_recorder.py:169
Lower(s) ==
    [i \in 1..Len(s) |->
        IF s[i] \in DOMAIN UpperToLower THEN UpperToLower[s[i]] ELSE s[i]]

\* --------------------------------------------------- supervisor: constants
\* "{RTSP_USER}" and "{RTSP_PASSWORD}" of camera_recorder.py:114-115
TokUser == <<"{","R","T","S","P","_","U","S","E","R","}">>
TokPassword == <<"{","R","T","S","P","_","P","A","S","S","W","O","R","D","}">>

\* auth_error_markers of camera_recorder.py:99-106
auth_error_markers ==
    { <<"4","0","1"," ","u","n","a","u","t","h","o","r","i","z","e","d">>,
      <<"4","0","3"," ","f","o","r","b","i","d","d","e","n">>,
      <<"a","u","t","h","o","r","i","z","a","t","i","o","n"," ","f","a","i","l","e","d">>,
      <<"a","u","t","h"," ","f","a","i","l","e","d">>,
      <<"u","n","a","u","t","h","o","r","i","z","e","d">>,
      <<"a","u","t","h","e","n","t","i","c","a","t","i","o","n"," ","f","a","i","l","e","d">> }

\* camera_conf["rtsp_url"] values a configuration can hold:
\*   "", "rtsp://{RTSP_USER}:p@h", "rtsp://u:{RTSP_PASSWORD}@h",
\*   "rtsp://u:p@h/s", "rtsp://h/s"
SourceUrls ==
    { <<>>,
      <<"r","t","s","p",":","/","/","{","R","T","S","P","_","U","S","E","R","}",":","p","@","h">>,
      <<"r","t","s","p",":","/","/","u",":","{","R","T","S","P","_","P","A","S","S","W","O","R","D","}","@","h">>,
      <<"r","t","s","p",":","/","/","u",":","p","@","h","/","s">>,
      <<"r","t","s","p",":","/","/","h","/","s">> }

\* lines ffmpeg can write: "frame=1", "401 Unauthorized", "AUTH FAILED",
\* "Unauthorised"
OutputLines ==
    << <<"f","r","a","m","e","=","1">>,
       <<"4","0","1"," ","U","n","a","u","t","h","o","r","i","z","e","d">>,
       <<"A","U","T","H"," ","F","A","I","L","E","D">>,
       <<"U","n","a","u","t","h","o","r","i","s","e","d">> >>

LineIds == 1..Len(OutputLines)
Pids == 1..MaxSpawn

\* time.sleep(10) of camera_recorder.py:122 and time.sleep(5) of line 206,
\* in seconds
InvalidUrlDelay == 10
RestartDelay == 5
Terminal == {"disabled", "stopped", "failed_auth"}

VARIABLES
    \* ---- CameraRecorder
    enabled,              \* camera_conf["enabled"]
    rtsp_url,             \* camera_conf["rtsp_url"]
    stop_event,           \* self.stop_event
    proc,                 \* self.proc: 0 is None, otherwise a pid
    auth_error_detected,  \* local of run()
    pc,                   \* position of run()
    lastLog,              \* last message run() gave to the application logger
    procState,            \* pid -> "unborn" | "live" | "exited"
    termReq,              \* pid -> terminate() was called on it
    pipe,                 \* unread lines on self.proc.stdout
    emitted,              \* lines the current process has written
    attemptEnd,           \* how the current attempt left the try block
    nSpawn,               \* successful Popen calls
    nAttempts,            \* loop iterations begun (build_ffmpeg_command calls)
    nSleep5,              \* completed time.sleep(5)
    nSleep10,             \* completed time.sleep(10)
    stopPc,               \* position of the stop() caller
    stopCalls,            \* completed stop() calls
    stopRaised,           \* a stop() call raised
    stopBeforeStart,      \* stop() was called before the thread was started
    napLeft,              \* seconds left of the time.sleep() in progress
    sleptAfterStop        \* seconds of time.sleep() spent with stop_event set

supVars == << enabled, rtsp_url, stop_event, proc, auth_error_detected, pc,
              lastLog, procState, termReq, pipe, emitted, attemptEnd,
              nSpawn, nAttempts, nSleep5, nSleep10, stopPc, stopCalls,
              stopRaised, stopBeforeStart, napLeft, sleptAfterStop >>

\* -------------------------------------------------------- sweeper: state
\* a segment file is <<camera directory name, file name>>
Cams == {"front", "yard"}
Names == {"s1.mp4"}
Files == Cams \X Names
\* (retention_days, backup_retention_days) pairs a configuration can hold
Windows == {<<1, 1>>, <<1, 0>>, <<0, 1>>}

VARIABLES
    \* ---- RetentionManager
    retention_days,         \* self.conf.stream_retention_days
    backup_retention_days,  \* self.conf.stream_backup_retention_days
    crossFs,                \* the two roots are on different filesystems
    sw_stop,                \* self.stop_event
    swPc,                   \* position of run()
    now,                    \* local of run()
    move_cutoff,            \* local of run()
    delete_cutoff,          \* local of run()
    camTodo,                \* directories the outer glob has still to yield
    curCam,                 \* cam_dir.name of the inner loop
    fileTodo,               \* files the inner glob has still to yield
    sleepLeft,              \* iterations left of the sleep loop
    swLog,                  \* last message given to Logger.log
    \* ---- the filesystem and the clock
    clock,                  \* datetime.now(), in days
    primary,                \* files under stream_output_path
    backup,                 \* files under stream_backup_output_path
    pMtime,                 \* st_mtime of the files in primary
    bMtime,                 \* st_mtime of the files in backup
    backupDirs,             \* camera directories under the backup root
    everSeen,               \* file names that have existed
    \* ---- per-cycle bookkeeping of the checks
    cycles,                 \* cycles begun
    cycleClean,             \* no I/O failure and no outside change this cycle
    startPrimary,           \* primary files, with mtime, when the cycle began
    startBackup,            \* backup files, with mtime, when the cycle began
    movedNow,               \* files moved by the current cycle
    deletedNow,             \* files deleted by the current cycle
    envOps,                 \* outside events so far: a file created or removed by
                            \* another process, an I/O error raised
    sleepsAfterStop,        \* time.sleep(1) calls that began after stop() was called
    stopCalledIn            \* where run() was when stop() was called: not
                            \* started, in the move phase of a cycle, or later

sweepVars == << retention_days, backup_retention_days, crossFs, sw_stop, swPc,
                now, move_cutoff, delete_cutoff, camTodo, curCam, fileTodo,
                sleepLeft, swLog, clock, primary, backup, pMtime, bMtime,
                backupDirs, everSeen, cycles, cycleClean, startPrimary,
                startBackup, movedNow, deletedNow, envOps, sleepsAfterStop,
                stopCalledIn >>

\* ------------------------------------------------------ sanitizer: state
VARIABLES
    san_in,      \* the text given to sanitize_rtsp_url, as its parts
    san_out,     \* sanitize_rtsp_url(text)
    san_twice,   \* sanitize_rtsp_url(sanitize_rtsp_url(text))
    sanPc        \* calls made so far

sanVars == << san_in, san_out, san_twice, sanPc >>

\* ------------------------------------------------ persisted text (state)
VARIABLES
    log_file_path,   \* logging/logger.py Logger.log_file_path: "None" or "set"
    rawLines,        \* the raw lines read from the subprocess, in order
    cameraLog,       \* what was written to the per-source log file, in order
    appMsgs,         \* the messages handed to the shared loggers, unsanitized
    appLog,          \* the lines written for them: [sink, text], sink "file"
                     \* (nvr.log) or "stdout" (Logger.log before the path is set)
    perPc,           \* "attempt" (before the echo) or "drain"
    lostLines        \* the positions in rawLines of lines whose write raised

persistVars == << log_file_path, rawLines, cameraLog, appMsgs, appLog,
                  perPc, lostLines >>

\* ------------------------------------------------ main: shutdown (state)
VARIABLES
    main_stop,       \* nvr.py main: stop_event, set by the signal handler
    mainPc,          \* position of main()
    nRecorders,      \* len(recorders)
    recIdx,          \* position of the for loop over recorders
    stopCalled,      \* units whose stop() has been called by main
    joinCalled,      \* units whose join() has been called by main
    finished         \* units whose run() has returned or died

shutVars == << main_stop, mainPc, nRecorders, recIdx, stopCalled, joinCalled,
               finished >>

\* ------------------------------------------- shared log: writers (state)
VARIABLES
    log_lock,        \* logging/logger.py Logger.log_lock: the holder or "free"
    handler_lock,    \* the lock of the FileHandler of log/logger.py:83-86
    wPc              \* position of each writing thread

lockVars == << log_lock, handler_lock, wPc >>

\* ------------------------------------------- units side by side (state)
VARIABLES
    uPc,             \* position of each thread: the recorders and the sweeper
    uProc,           \* recorder -> its self.proc: "none", "live", "closed"
                     \* (running, output closed) or "exited"
    uPipe            \* recorder -> unread lines on its self.proc.stdout

concVars == << uPc, uProc, uPipe >>

\* ------------------------------------------------------ singleton: state
\* the classes that hold an _instance attribute: the base and its subclasses
Classes == {"Config", "Logger"}
\* the threads that call a constructor
Threads == {"main", "t1", "t2"}

VARIABLES
    instance,        \* class -> the object its own _instance attribute holds,
                     \* 0 while the class has no such attribute
    instance_lock,   \* Singleton._instance_lock: the holder or "free"
    cPc,             \* thread -> position in Singleton.__new__
    cCls,            \* thread -> the cls of its call
    nObjects,        \* objects made by super().__new__(cls) so far
    created,         \* class -> objects made for it
    returned,        \* <<class, object>> pairs the constructor calls returned
    nCalls           \* thread -> constructor calls completed

singVars == << instance, instance_lock, cPc, cCls, nObjects, created,
              returned, nCalls >>

vars == << supVars, sweepVars, sanVars, persistVars, shutVars, lockVars,
          concVars, singVars >>

\* what each component leaves alone
nonSupVars == << sweepVars, sanVars, persistVars, shutVars, lockVars,
                  concVars, singVars >>
nonSweepVars == << supVars, sanVars, persistVars, shutVars, lockVars,
                    concVars, singVars >>
nonSanVars == << supVars, sweepVars, persistVars, shutVars, lockVars,
                  concVars, singVars >>
nonPersistVars == << supVars, sweepVars, sanVars, shutVars, lockVars,
                      concVars, singVars >>
nonShutVars == << supVars, sweepVars, sanVars, persistVars, lockVars,
                   concVars, singVars >>
nonLockVars == << supVars, sweepVars, sanVars, persistVars, shutVars,
                   concVars, singVars >>
nonConcVars == << supVars, sweepVars, sanVars, persistVars, shutVars, wPc,
                   singVars >>
nonSingVars == << supVars, sweepVars, sanVars, persistVars, shutVars,
                   lockVars, concVars >>

\* ------------------------------------------------ supervisor: pure helpers
\* UrlInvalid without the "{RTSP_PASSWORD}" test
UrlInvalid_NoPasswordCheck(url) ==
    \/ url = <<>>
    \/ IsInfix(TokUser, url)

\* camera_recorder.py:112-116
UrlInvalid(url) ==
    \/ url = <<>>
    \/ IsInfix(TokUser, url)
    \/ IsInfix(TokPassword, url)

\* the marker test without the lower() of line 169
MatchesMarker_CaseSensitive(raw_line) ==
    \E marker \in auth_error_markers : IsInfix(marker, raw_line)

\* camera_recorder.py:169-170
MatchesMarker(raw_line) ==
    \E marker \in auth_error_markers : IsInfix(marker, Lower(raw_line))

\* the loop as a do-while: the first iteration ignores the stop flag
LoopContinues_Always(stop) == TRUE

\* camera_recorder.py:108, the while condition
LoopContinues(stop) == ~stop

\* ExitTarget without the authorization break of lines 196-202
ExitTarget_NoAuthCheck(stop, auth) ==
    IF stop THEN "stopped" ELSE "backoff"

\* ExitTarget without the stop break of lines 192-193
ExitTarget_NoStopCheck(stop, auth) ==
    IF auth THEN "failed_auth" ELSE "backoff"

\* ExitTarget that halts on any failure, authorization or not
ExitTarget_HaltOnAnyFailure(stop, auth) ==
    IF stop THEN "stopped" ELSE "failed_auth"

\* ExitTarget with the two tests in the other order
ExitTarget_AuthFirst(stop, auth) ==
    IF auth THEN "failed_auth"
    ELSE IF stop THEN "stopped"
    ELSE "backoff"

\* camera_recorder.py:192-206, where control goes after an attempt
ExitTarget(stop, auth) ==
    IF stop THEN "stopped"
    ELSE IF auth THEN "failed_auth"
    ELSE "backoff"

\* stop() without the `self.proc and` guard: poll() is called on None too
StopPolls_NoNoneCheck(p) == TRUE

\* camera_recorder.py:80, `self.proc and ...` guards the poll() call
StopPolls(p) == p # 0

\* ------------------------------------------------------- supervisor: Init
\* CameraRecorder.__init__ and the locals of run() before the loop
SupLocals ==
    /\ stop_event = FALSE
    /\ proc = 0
    /\ auth_error_detected = FALSE
    /\ pc = "not_started"
    /\ lastLog = "none"
    /\ procState = [p \in Pids |-> "unborn"]
    /\ termReq = [p \in Pids |-> FALSE]
    /\ pipe = <<>>
    /\ emitted = 0
    /\ attemptEnd = "none"
    /\ nSpawn = 0
    /\ nAttempts = 0
    /\ nSleep5 = 0
    /\ nSleep10 = 0
    /\ stopPc = "idle"
    /\ stopCalls = 0
    /\ stopRaised = FALSE
    /\ stopBeforeStart = FALSE
    /\ napLeft = 0
    /\ sleptAfterStop = 0

SupInit ==
    /\ enabled \in BOOLEAN
    /\ rtsp_url \in SourceUrls
    /\ SupLocals

\* a supervisor at rest, for the specifications that do not run it
SupIdle ==
    /\ enabled = FALSE
    /\ rtsp_url = <<>>
    /\ SupLocals

\* ---------------------------------------------------- supervisor: run()
\* Thread.start() -> run()
Start ==
    /\ pc = "not_started"
    /\ pc' = "enabled_check"
    /\ UNCHANGED << attemptEnd, enabled, rtsp_url, stop_event, proc, auth_error_detected,
                    lastLog, procState, termReq, pipe, emitted, nSpawn,
                    nAttempts, nSleep5, nSleep10, stopPc, stopCalls,
                    stopRaised, stopBeforeStart,
                    napLeft, sleptAfterStop >>
    /\ UNCHANGED nonSupVars

\* run() without the enabled check of lines 91-96
EnabledCheck_Ignored ==
    /\ pc = "enabled_check"
    /\ pc' = "loop_top"
    /\ UNCHANGED lastLog
    /\ UNCHANGED << attemptEnd, enabled, rtsp_url, stop_event, proc, auth_error_detected,
                    procState, termReq, pipe, emitted, nSpawn, nAttempts,
                    nSleep5, nSleep10, stopPc, stopCalls, stopRaised,
                    stopBeforeStart,
                    napLeft, sleptAfterStop >>
    /\ UNCHANGED nonSupVars

\* camera_recorder.py:91-96
EnabledCheck ==
    /\ pc = "enabled_check"
    /\ IF enabled
       THEN pc' = "loop_top" /\ UNCHANGED lastLog
       ELSE pc' = "disabled" /\ lastLog' = "skipping"
    /\ UNCHANGED << attemptEnd, enabled, rtsp_url, stop_event, proc, auth_error_detected,
                    procState, termReq, pipe, emitted, nSpawn, nAttempts,
                    nSleep5, nSleep10, stopPc, stopCalls, stopRaised,
                    stopBeforeStart,
                    napLeft, sleptAfterStop >>
    /\ UNCHANGED nonSupVars

\* camera_recorder.py:108, loop left because stop_event is set
LoopExit ==
    /\ pc = "loop_top"
    /\ ~LoopContinues(stop_event)
    /\ pc' = "stopped"
    /\ UNCHANGED << attemptEnd, enabled, rtsp_url, stop_event, proc, auth_error_detected,
                    lastLog, procState, termReq, pipe, emitted, nSpawn,
                    nAttempts, nSleep5, nSleep10, stopPc, stopCalls,
                    stopRaised, stopBeforeStart,
                    napLeft, sleptAfterStop >>
    /\ UNCHANGED nonSupVars

\* camera_recorder.py:108-109, a new iteration begins
LoopEnter ==
    /\ pc = "loop_top"
    /\ LoopContinues(stop_event)
    /\ nAttempts < MaxAttempts
    /\ pc' = "validate"
    /\ nAttempts' = nAttempts + 1
    /\ UNCHANGED << attemptEnd, enabled, rtsp_url, stop_event, proc, auth_error_detected,
                    lastLog, procState, termReq, pipe, emitted, nSpawn,
                    nSleep5, nSleep10, stopPc, stopCalls, stopRaised,
                    stopBeforeStart,
                    napLeft, sleptAfterStop >>
    /\ UNCHANGED nonSupVars

\* camera_recorder.py:112-123, the URL is empty or holds a placeholder
ValidateBad ==
    /\ pc = "validate"
    /\ UrlInvalid(rtsp_url)
    /\ lastLog' = "invalid_url"
    /\ pc' = "sleep10"
    /\ napLeft' = InvalidUrlDelay
    /\ UNCHANGED << attemptEnd, enabled, rtsp_url, stop_event, proc, auth_error_detected,
                    procState, termReq, pipe, emitted, nSpawn, nAttempts,
                    nSleep5, nSleep10, stopPc, stopCalls, stopRaised,
                    stopBeforeStart,
                    sleptAfterStop >>
    /\ UNCHANGED nonSupVars

\* camera_recorder.py:122 and 206, one second of a time.sleep() passes;
\* the call looks at nothing until its time is up
SleepSecond ==
    /\ pc \in {"sleep10", "backoff"}
    /\ napLeft > 0
    /\ napLeft' = napLeft - 1
    /\ sleptAfterStop' = IF stop_event THEN sleptAfterStop + 1
                          ELSE sleptAfterStop
    /\ UNCHANGED << attemptEnd, enabled, rtsp_url, stop_event, proc, auth_error_detected,
                    pc, lastLog, procState, termReq, pipe, emitted, nSpawn,
                    nAttempts, nSleep5, nSleep10, stopPc, stopCalls,
                    stopRaised, stopBeforeStart >>
    /\ UNCHANGED nonSupVars

\* camera_recorder.py:122-123, time.sleep(10) returns
Sleep10 ==
    /\ pc = "sleep10"
    /\ napLeft = 0
    /\ pc' = "loop_top"
    /\ nSleep10' = nSleep10 + 1
    /\ UNCHANGED << attemptEnd, enabled, rtsp_url, stop_event, proc, auth_error_detected,
                    lastLog, procState, termReq, pipe, emitted, nSpawn,
                    nAttempts, nSleep5, stopPc, stopCalls, stopRaised,
                    stopBeforeStart,
                    napLeft, sleptAfterStop >>
    /\ UNCHANGED nonSupVars

\* camera_recorder.py:125-142, flag reset and "Starting ffmpeg" log
ValidateOk ==
    /\ pc = "validate"
    /\ ~UrlInvalid(rtsp_url)
    /\ auth_error_detected' = FALSE
    /\ lastLog' = "starting"
    /\ pc' = "spawn"
    /\ attemptEnd' = "none"
    /\ UNCHANGED << enabled, rtsp_url, stop_event, proc, procState, termReq,
                    pipe, emitted, nSpawn, nAttempts, nSleep5, nSleep10,
                    stopPc, stopCalls, stopRaised, stopBeforeStart,
                    napLeft, sleptAfterStop >>
    /\ UNCHANGED nonSupVars

\* camera_recorder.py:145-151, Popen succeeds
SpawnOk ==
    /\ pc = "spawn"
    /\ nSpawn < MaxSpawn
    /\ nSpawn' = nSpawn + 1
    /\ proc' = nSpawn + 1
    /\ procState' = [procState EXCEPT ![nSpawn + 1] = "live"]
    /\ pipe' = <<>>
    /\ emitted' = 0
    /\ pc' = "open_log"
    /\ UNCHANGED << attemptEnd, enabled, rtsp_url, stop_event, auth_error_detected,
                    lastLog, termReq, nAttempts, nSleep5, nSleep10, stopPc,
                    stopCalls, stopRaised, stopBeforeStart,
                    napLeft, sleptAfterStop >>
    /\ UNCHANGED nonSupVars

\* camera_recorder.py:145 raises (missing binary, OSError) -> 185-190
SpawnFail ==
    /\ pc = "spawn"
    /\ lastLog' = "error"
    /\ pc' = "exit_check"
    /\ attemptEnd' = "spawn_failed"
    /\ UNCHANGED << enabled, rtsp_url, stop_event, proc, auth_error_detected,
                    procState, termReq, pipe, emitted, nSpawn, nAttempts,
                    nSleep5, nSleep10, stopPc, stopCalls, stopRaised,
                    stopBeforeStart,
                    napLeft, sleptAfterStop >>
    /\ UNCHANGED nonSupVars

\* camera_recorder.py:154-159, the per-camera log file opens
OpenLogOk ==
    /\ pc = "open_log"
    /\ pc' = "drain"
    /\ UNCHANGED << attemptEnd, enabled, rtsp_url, stop_event, proc, auth_error_detected,
                    lastLog, procState, termReq, pipe, emitted, nSpawn,
                    nAttempts, nSleep5, nSleep10, stopPc, stopCalls,
                    stopRaised, stopBeforeStart,
                    napLeft, sleptAfterStop >>
    /\ UNCHANGED nonSupVars

\* camera_recorder.py:154 raises OSError -> 185-190; ffmpeg is not waited for
OpenLogFail ==
    /\ pc = "open_log"
    /\ lastLog' = "error"
    /\ pc' = "exit_check"
    /\ attemptEnd' = "raised"
    /\ UNCHANGED << enabled, rtsp_url, stop_event, proc, auth_error_detected,
                    procState, termReq, pipe, emitted, nSpawn, nAttempts,
                    nSleep5, nSleep10, stopPc, stopCalls, stopRaised,
                    stopBeforeStart,
                    napLeft, sleptAfterStop >>
    /\ UNCHANGED nonSupVars

\* camera_recorder.py:160-174, one line read, written, scanned
DrainLine ==
    /\ pc = "drain"
    /\ pipe # <<>>
    /\ pipe' = Tail(pipe)
    /\ auth_error_detected' =
          (auth_error_detected \/ MatchesMarker(OutputLines[Head(pipe)]))
    /\ pc' = IF stop_event THEN "wait" ELSE "drain"
    /\ UNCHANGED << attemptEnd, enabled, rtsp_url, stop_event, proc, lastLog, procState,
                    termReq, emitted, nSpawn, nAttempts, nSleep5, nSleep10,
                    stopPc, stopCalls, stopRaised, stopBeforeStart,
                    napLeft, sleptAfterStop >>
    /\ UNCHANGED nonSupVars

\* camera_recorder.py:160 or 166 raises (decode error, write error) -> 185-190
DrainFail ==
    /\ pc = "drain"
    /\ pipe # <<>>
    /\ pipe' = Tail(pipe)
    /\ lastLog' = "error"
    /\ pc' = "exit_check"
    /\ attemptEnd' = "raised"
    /\ UNCHANGED << enabled, rtsp_url, stop_event, proc, auth_error_detected,
                    procState, termReq, emitted, nSpawn, nAttempts, nSleep5,
                    nSleep10, stopPc, stopCalls, stopRaised, stopBeforeStart,
                    napLeft, sleptAfterStop >>
    /\ UNCHANGED nonSupVars

\* camera_recorder.py:160, end of file on stdout
DrainEOF ==
    /\ pc = "drain"
    /\ pipe = <<>>
    /\ procState[proc] = "exited"
    /\ pc' = "wait"
    /\ UNCHANGED << attemptEnd, enabled, rtsp_url, stop_event, proc, auth_error_detected,
                    lastLog, procState, termReq, pipe, emitted, nSpawn,
                    nAttempts, nSleep5, nSleep10, stopPc, stopCalls,
                    stopRaised, stopBeforeStart,
                    napLeft, sleptAfterStop >>
    /\ UNCHANGED nonSupVars

\* camera_recorder.py:177-183, proc.wait() returns and the exit is logged
WaitExit ==
    /\ pc = "wait"
    /\ procState[proc] = "exited"
    /\ lastLog' = "exited"
    /\ pc' = "exit_check"
    /\ attemptEnd' = "exited"
    /\ UNCHANGED << enabled, rtsp_url, stop_event, proc, auth_error_detected,
                    procState, termReq, pipe, emitted, nSpawn, nAttempts,
                    nSleep5, nSleep10, stopPc, stopCalls, stopRaised,
                    stopBeforeStart,
                    napLeft, sleptAfterStop >>
    /\ UNCHANGED nonSupVars

\* camera_recorder.py:192-205
ExitCheck ==
    /\ pc = "exit_check"
    /\ pc' = ExitTarget(stop_event, auth_error_detected)
    /\ lastLog' = CASE pc' = "failed_auth" -> "auth_halt"
                    [] pc' = "backoff" -> "restarting"
                    [] OTHER -> lastLog
    /\ napLeft' = IF pc' = "backoff" THEN RestartDelay ELSE napLeft
    /\ UNCHANGED << attemptEnd, enabled, rtsp_url, stop_event, proc, auth_error_detected,
                    procState, termReq, pipe, emitted, nSpawn, nAttempts,
                    nSleep5, nSleep10, stopPc, stopCalls, stopRaised,
                    stopBeforeStart,
                    sleptAfterStop >>
    /\ UNCHANGED nonSupVars

\* camera_recorder.py:206, time.sleep(5) returns
Backoff ==
    /\ pc = "backoff"
    /\ napLeft = 0
    /\ pc' = "loop_top"
    /\ nSleep5' = nSleep5 + 1
    /\ UNCHANGED << attemptEnd, enabled, rtsp_url, stop_event, proc, auth_error_detected,
                    lastLog, procState, termReq, pipe, emitted, nSpawn,
                    nAttempts, nSleep10, stopPc, stopCalls, stopRaised,
                    stopBeforeStart,
                    napLeft, sleptAfterStop >>
    /\ UNCHANGED nonSupVars

\* ------------------------------------------------ supervisor: the ffmpeg side
\* the process self.proc refers to writes a line to its stdout/stderr
ProcEmit ==
    /\ proc # 0
    /\ procState[proc] = "live"
    /\ emitted < MaxLines
    /\ \E l \in LineIds : pipe' = Append(pipe, l)
    /\ emitted' = emitted + 1
    /\ UNCHANGED << attemptEnd, enabled, rtsp_url, stop_event, proc, auth_error_detected,
                    pc, lastLog, procState, termReq, nSpawn, nAttempts,
                    nSleep5, nSleep10, stopPc, stopCalls, stopRaised,
                    stopBeforeStart,
                    napLeft, sleptAfterStop >>
    /\ UNCHANGED nonSupVars

\* a started process ends (completion, crash or signal)
ProcExit ==
    /\ \E p \in Pids :
          /\ procState[p] = "live"
          /\ procState' = [procState EXCEPT ![p] = "exited"]
    /\ UNCHANGED << attemptEnd, enabled, rtsp_url, stop_event, proc, auth_error_detected,
                    pc, lastLog, termReq, pipe, emitted, nSpawn, nAttempts,
                    nSleep5, nSleep10, stopPc, stopCalls, stopRaised,
                    stopBeforeStart,
                    napLeft, sleptAfterStop >>
    /\ UNCHANGED nonSupVars

\* ---------------------------------------------------- supervisor: stop()
\* camera_recorder.py:79
StopSet ==
    /\ stopPc = "idle"
    /\ stopCalls < MaxStopCalls
    /\ stop_event' = TRUE
    /\ stopPc' = "check"
    /\ stopBeforeStart' = (stopBeforeStart \/ pc = "not_started")
    /\ UNCHANGED << attemptEnd, enabled, rtsp_url, proc, auth_error_detected, pc, lastLog,
                    procState, termReq, pipe, emitted, nSpawn, nAttempts,
                    nSleep5, nSleep10, stopCalls, stopRaised,
                    napLeft, sleptAfterStop >>
    /\ UNCHANGED nonSupVars

\* camera_recorder.py:80-85
StopTerminate ==
    /\ stopPc = "check"
    /\ IF StopPolls(proc)
       THEN /\ stopRaised' = (stopRaised \/ proc = 0)
            /\ termReq' = IF proc # 0 /\ procState[proc] = "live"
                          THEN [termReq EXCEPT ![proc] = TRUE]
                          ELSE termReq
       ELSE UNCHANGED << stopRaised, termReq >>
    /\ stopPc' = "idle"
    /\ stopCalls' = stopCalls + 1
    /\ UNCHANGED << attemptEnd, enabled, rtsp_url, stop_event, proc, auth_error_detected,
                    pc, lastLog, procState, pipe, emitted, nSpawn, nAttempts,
                    nSleep5, nSleep10, stopBeforeStart,
                    napLeft, sleptAfterStop >>
    /\ UNCHANGED nonSupVars

\* camera_recorder.py:109 -> 46, out_dir.mkdir raises OSError (read-only or
\* missing volume, a file in the way); the call is outside the try of line
\* 127, so the exception leaves run() and the thread ends
BuildFail ==
    /\ pc = "validate"
    /\ pc' = "crashed"
    /\ UNCHANGED << attemptEnd, enabled, rtsp_url, stop_event, proc, auth_error_detected,
                    lastLog, procState, termReq, pipe, emitted, nSpawn,
                    nAttempts, nSleep5, nSleep10, stopPc, stopCalls,
                    stopRaised, stopBeforeStart, napLeft, sleptAfterStop >>
    /\ UNCHANGED nonSupVars

SupNext ==
    \/ Start \/ EnabledCheck \/ LoopExit \/ LoopEnter
    \/ ValidateBad \/ SleepSecond \/ Sleep10 \/ ValidateOk
    \/ SpawnOk \/ SpawnFail \/ OpenLogOk \/ OpenLogFail
    \/ DrainLine \/ DrainFail \/ DrainEOF \/ WaitExit
    \/ ExitCheck \/ Backoff
    \/ ProcEmit \/ ProcExit
    \/ StopSet \/ StopTerminate

\* ------------------------------------------------ sweeper: pure helpers
\* MoveCutoff with the primary window counted twice
MoveCutoff_Doubled(n, P) == n - (P + P)

\* retention_manager.py:34-35
MoveCutoff(n, P) == n - P

\* DeleteCutoff computed from the backup window alone
DeleteCutoff_BackupOnly(n, P, B) == n - B

\* DeleteCutoff with the backup window subtracted from the primary window
DeleteCutoff_Later(n, P, B) == n - (P - B)

\* retention_manager.py:39
DeleteCutoff(n, P, B) == n - (P + B)

\* a move condition that also takes a file whose mtime equals the cutoff
MoveDue_Inclusive(mtime, cutoff) == mtime <= cutoff

\* retention_manager.py:52
MoveDue(mtime, cutoff) == mtime < cutoff

\* a delete condition that wants the file a further day older
DeleteDue_DayLater(mtime, cutoff) == mtime + 1 < cutoff

\* retention_manager.py:82
DeleteDue(mtime, cutoff) == mtime < cutoff

\* DestOf that drops the camera directory: every file lands in one directory
DestOf_Flat(cam, file) == << "front", file[2] >>

\* retention_manager.py:46 and 53, backup_path / cam_dir.name / file.name
DestOf(cam, file) == << cam, file[2] >>

\* a sleep loop that runs its full count whatever the stop flag says
WaitEnds_NoStopCheck(stop, left) == left = 0

\* retention_manager.py:92-94: the sleep loop ends when the stop flag is set
\* or the count is used up
WaitEnds(stop, left) == stop \/ left = 0

\* a loop test that never looks at the stop flag
CycleContinues_Always(stop) == TRUE

\* retention_manager.py:30, while not self.stop_event.is_set()
CycleContinues(stop) == ~stop

\* run() has not returned or died
SweeperRuns == swPc \notin {"done", "crashed"}

\* the directory entries of one camera directory with their mtimes
Listing(tier, mtimes) == { << f, mtimes[f] >> : f \in tier }

\* ------------------------------------------------------- sweeper: Init
\* RetentionManager.__init__ and the locals of run() before the loop
SweepLocals ==
    /\ sw_stop = FALSE
    /\ swPc = "not_started"
    /\ now = 0
    /\ move_cutoff = 0
    /\ delete_cutoff = 0
    /\ camTodo = {}
    /\ curCam = "none"
    /\ fileTodo = {}
    /\ sleepLeft = 0
    /\ swLog = "none"
    /\ clock = StartClock
    /\ cycles = 0
    /\ cycleClean = TRUE
    /\ startPrimary = {}
    /\ startBackup = {}
    /\ movedNow = {}
    /\ deletedNow = {}
    /\ envOps = 0
    /\ sleepsAfterStop = 0
    /\ stopCalledIn = "none"

\* the two trees hold any files written before, each in one tier only
SweepInit ==
    /\ \E w \in Windows :
          retention_days = w[1] /\ backup_retention_days = w[2]
    /\ crossFs \in BOOLEAN
    /\ primary \in SUBSET Files
    /\ backup \in SUBSET (Files \ primary)
    /\ pMtime \in [Files -> 0..StartClock]
    /\ bMtime \in [Files -> 0..StartClock]
    /\ \A f \in Files : f \notin primary => pMtime[f] = 0
    /\ \A f \in Files : f \notin backup => bMtime[f] = 0
    /\ backupDirs = { f[1] : f \in backup }
    /\ everSeen = primary \cup backup
    /\ SweepLocals

\* the sweeper at rest, for the specifications that do not run it
SweepIdle ==
    /\ retention_days = 1
    /\ backup_retention_days = 0
    /\ crossFs = FALSE
    /\ primary = {}
    /\ backup = {}
    /\ pMtime = [f \in Files |-> 0]
    /\ bMtime = [f \in Files |-> 0]
    /\ backupDirs = {}
    /\ everSeen = {}
    /\ SweepLocals

\* ------------------------------------------------- sweeper: run()

\* retention_manager.py:21-28
SweepStart ==
    /\ swPc = "not_started"
    /\ swLog' = "started"
    /\ swPc' = "top"
    /\ UNCHANGED << retention_days, backup_retention_days, crossFs,
                    sw_stop, now, move_cutoff, delete_cutoff, camTodo,
                    curCam, fileTodo, sleepLeft, clock, primary, backup,
                    pMtime, bMtime, backupDirs, everSeen, cycles,
                    cycleClean, startPrimary, startBackup, movedNow,
                    deletedNow, envOps, sleepsAfterStop,
                    stopCalledIn >>
    /\ UNCHANGED nonSweepVars

\* retention_manager.py:30, loop left because stop_event is set
CycleExit ==
    /\ swPc = "top"
    /\ ~CycleContinues(sw_stop)
    /\ swPc' = "done"
    /\ UNCHANGED << retention_days, backup_retention_days, crossFs,
                    sw_stop, now, move_cutoff, delete_cutoff, camTodo,
                    curCam, fileTodo, sleepLeft, swLog, clock, primary,
                    backup, pMtime, bMtime, backupDirs, everSeen, cycles,
                    cycleClean, startPrimary, startBackup, movedNow,
                    deletedNow, envOps, sleepsAfterStop,
                    stopCalledIn >>
    /\ UNCHANGED nonSweepVars

\* retention_manager.py:30-42, cutoffs computed, outer glob of the primary root
CycleBegin ==
    /\ swPc = "top"
    /\ CycleContinues(sw_stop)
    /\ cycles < MaxCycles
    /\ now' = clock
    /\ move_cutoff' = MoveCutoff(clock, retention_days)
    /\ delete_cutoff' = DeleteCutoff(clock, retention_days, backup_retention_days)
    /\ camTodo' = Cams
    /\ swPc' = "move_dirs"
    /\ cycles' = cycles + 1
    /\ cycleClean' = TRUE
    /\ startPrimary' = Listing(primary, pMtime)
    /\ startBackup' = Listing(backup, bMtime)
    /\ movedNow' = {}
    /\ deletedNow' = {}
    /\ UNCHANGED << retention_days, backup_retention_days, crossFs,
                    sw_stop, curCam, fileTodo, sleepLeft, swLog, clock,
                    primary, backup, pMtime, bMtime, backupDirs, everSeen,
                    envOps, sleepsAfterStop,
                    stopCalledIn >>
    /\ UNCHANGED nonSweepVars

\* retention_manager.py:42-49, mkdir of the backup directory, inner glob
MoveNextDir ==
    \E c \in Cams :
        /\ swPc = "move_dirs"
        /\ c \in camTodo
        /\ camTodo' = camTodo \ {c}
        /\ curCam' = c
        /\ backupDirs' = backupDirs \cup {c}
        /\ fileTodo' = { f \in primary : f[1] = c }
        /\ swPc' = "move_files"
        /\ UNCHANGED << retention_days, backup_retention_days, crossFs,
                        sw_stop, now, move_cutoff, delete_cutoff,
                        sleepLeft, swLog, clock, primary, backup, pMtime,
                        bMtime, everSeen, cycles, cycleClean, startPrimary,
                        startBackup, movedNow, deletedNow, envOps,
                        sleepsAfterStop,
                        stopCalledIn >>
        /\ UNCHANGED nonSweepVars

\* retention_manager.py:47 raises OSError outside any try: run() ends
MoveMkdirFail ==
    /\ swPc = "move_dirs"
    /\ camTodo # {}
    /\ envOps < MaxEnvOps
    /\ envOps' = envOps + 1
    /\ swPc' = "crashed"
    /\ cycleClean' = FALSE
    /\ UNCHANGED << retention_days, backup_retention_days, crossFs,
                    sw_stop, now, move_cutoff, delete_cutoff, camTodo,
                    curCam, fileTodo, sleepLeft, swLog, clock, primary,
                    backup, pMtime, bMtime, backupDirs, everSeen, cycles,
                    startPrimary, startBackup, movedNow, deletedNow,
                    sleepsAfterStop,
                    stopCalledIn >>
    /\ UNCHANGED nonSweepVars

\* retention_manager.py:73, outer glob of the backup root
MoveDirsDone ==
    /\ swPc = "move_dirs"
    /\ camTodo = {}
    /\ camTodo' = backupDirs
    /\ swPc' = "expire_dirs"
    /\ UNCHANGED << retention_days, backup_retention_days, crossFs,
                    sw_stop, now, move_cutoff, delete_cutoff, curCam,
                    fileTodo, sleepLeft, swLog, clock, primary, backup,
                    pMtime, bMtime, backupDirs, everSeen, cycles,
                    cycleClean, startPrimary, startBackup, movedNow,
                    deletedNow, envOps, sleepsAfterStop,
                    stopCalledIn >>
    /\ UNCHANGED nonSweepVars

\* retention_manager.py:49, inner glob exhausted
MoveFilesDone ==
    /\ swPc = "move_files"
    /\ fileTodo = {}
    /\ swPc' = "move_dirs"
    /\ UNCHANGED << retention_days, backup_retention_days, crossFs,
                    sw_stop, now, move_cutoff, delete_cutoff, camTodo,
                    curCam, fileTodo, sleepLeft, swLog, clock, primary,
                    backup, pMtime, bMtime, backupDirs, everSeen, cycles,
                    cycleClean, startPrimary, startBackup, movedNow,
                    deletedNow, envOps, sleepsAfterStop,
                    stopCalledIn >>
    /\ UNCHANGED nonSweepVars

\* retention_manager.py:51 or 56 raises FileNotFoundError -> 61-65
MoveGone ==
    \E f \in Files :
        /\ swPc = "move_files"
        /\ f \in fileTodo
        /\ f \notin primary
        /\ fileTodo' = fileTodo \ {f}
        /\ swLog' = "move_failed_notfound"
        /\ UNCHANGED << retention_days, backup_retention_days, crossFs,
                        sw_stop, swPc, now, move_cutoff, delete_cutoff,
                        camTodo, curCam, sleepLeft, clock, primary, backup,
                        pMtime, bMtime, backupDirs, everSeen, cycles,
                        cycleClean, startPrimary, startBackup, movedNow,
                        deletedNow, envOps, sleepsAfterStop,
                        stopCalledIn >>
        /\ UNCHANGED nonSweepVars

\* retention_manager.py:51 or 56 raises another OSError before anything
\* changed -> 66-70
MoveOSError ==
    \E f \in Files :
        /\ swPc = "move_files"
        /\ f \in fileTodo
        /\ f \in primary
        /\ envOps < MaxEnvOps
        /\ envOps' = envOps + 1
        /\ fileTodo' = fileTodo \ {f}
        /\ swLog' = "move_failed"
        /\ cycleClean' = FALSE
        /\ UNCHANGED << retention_days, backup_retention_days, crossFs,
                        sw_stop, swPc, now, move_cutoff, delete_cutoff,
                        camTodo, curCam, sleepLeft, clock, primary, backup,
                        pMtime, bMtime, backupDirs, everSeen, cycles,
                        startPrimary, startBackup, movedNow, deletedNow,
                        sleepsAfterStop,
                        stopCalledIn >>
        /\ UNCHANGED nonSweepVars

\* retention_manager.py:51-52, the file is not old enough
MoveSkip ==
    \E f \in Files :
        /\ swPc = "move_files"
        /\ f \in fileTodo
        /\ f \in primary
        /\ ~MoveDue(pMtime[f], move_cutoff)
        /\ fileTodo' = fileTodo \ {f}
        /\ UNCHANGED << retention_days, backup_retention_days, crossFs,
                        sw_stop, swPc, now, move_cutoff, delete_cutoff,
                        camTodo, curCam, sleepLeft, swLog, clock, primary,
                        backup, pMtime, bMtime, backupDirs, everSeen,
                        cycles, cycleClean, startPrimary, startBackup,
                        movedNow, deletedNow, envOps, sleepsAfterStop,
                        stopCalledIn >>
        /\ UNCHANGED nonSweepVars

\* retention_manager.py:52-60, shutil.move as os.rename
MoveRename ==
    \E f \in Files :
        /\ swPc = "move_files"
        /\ f \in fileTodo
        /\ f \in primary
        /\ MoveDue(pMtime[f], move_cutoff)
        /\ ~crossFs
        /\ fileTodo' = fileTodo \ {f}
        /\ primary' = primary \ {f}
        /\ pMtime' = [pMtime EXCEPT ![f] = 0]
        /\ backup' = backup \cup {DestOf(curCam, f)}
        /\ bMtime' = [bMtime EXCEPT ![DestOf(curCam, f)] = pMtime[f]]
        /\ movedNow' = movedNow \cup {f}
        /\ swLog' = "moved"
        /\ UNCHANGED << retention_days, backup_retention_days, crossFs,
                        sw_stop, swPc, now, move_cutoff, delete_cutoff,
                        camTodo, curCam, sleepLeft, clock, backupDirs,
                        everSeen, cycles, cycleClean, startPrimary,
                        startBackup, deletedNow, envOps, sleepsAfterStop,
                        stopCalledIn >>
        /\ UNCHANGED nonSweepVars

\* retention_manager.py:52-60, shutil.move as copy2 then unlink
MoveCopy ==
    \E f \in Files :
        /\ swPc = "move_files"
        /\ f \in fileTodo
        /\ f \in primary
        /\ MoveDue(pMtime[f], move_cutoff)
        /\ crossFs
        /\ fileTodo' = fileTodo \ {f}
        /\ primary' = primary \ {f}
        /\ pMtime' = [pMtime EXCEPT ![f] = 0]
        /\ backup' = backup \cup {DestOf(curCam, f)}
        /\ bMtime' = [bMtime EXCEPT ![DestOf(curCam, f)] = pMtime[f]]
        /\ movedNow' = movedNow \cup {f}
        /\ swLog' = "moved"
        /\ UNCHANGED << retention_days, backup_retention_days, crossFs,
                        sw_stop, swPc, now, move_cutoff, delete_cutoff,
                        camTodo, curCam, sleepLeft, clock, backupDirs,
                        everSeen, cycles, cycleClean, startPrimary,
                        startBackup, deletedNow, envOps, sleepsAfterStop,
                        stopCalledIn >>
        /\ UNCHANGED nonSweepVars

\* retention_manager.py:56, copy2 raises OSError part-way: the destination
\* holds a partial file stamped with the current time -> 66-70
MoveCopyPartial ==
    \E f \in Files :
        /\ swPc = "move_files"
        /\ f \in fileTodo
        /\ f \in primary
        /\ MoveDue(pMtime[f], move_cutoff)
        /\ crossFs
        /\ envOps < MaxEnvOps
        /\ envOps' = envOps + 1
        /\ fileTodo' = fileTodo \ {f}
        /\ backup' = backup \cup {DestOf(curCam, f)}
        /\ bMtime' = [bMtime EXCEPT ![DestOf(curCam, f)] = clock]
        /\ swLog' = "move_failed"
        /\ cycleClean' = FALSE
        /\ UNCHANGED << retention_days, backup_retention_days, crossFs,
                        sw_stop, swPc, now, move_cutoff, delete_cutoff,
                        camTodo, curCam, sleepLeft, clock, primary, pMtime,
                        backupDirs, everSeen, cycles, startPrimary,
                        startBackup, movedNow, deletedNow, sleepsAfterStop,
                        stopCalledIn >>
        /\ UNCHANGED nonSweepVars

\* retention_manager.py:56, copy2 done, unlink of the source raises OSError
\* -> 66-70
MoveUnlinkFail ==
    \E f \in Files :
        /\ swPc = "move_files"
        /\ f \in fileTodo
        /\ f \in primary
        /\ MoveDue(pMtime[f], move_cutoff)
        /\ crossFs
        /\ envOps < MaxEnvOps
        /\ envOps' = envOps + 1
        /\ fileTodo' = fileTodo \ {f}
        /\ backup' = backup \cup {DestOf(curCam, f)}
        /\ bMtime' = [bMtime EXCEPT ![DestOf(curCam, f)] = pMtime[f]]
        /\ swLog' = "move_failed"
        /\ cycleClean' = FALSE
        /\ UNCHANGED << retention_days, backup_retention_days, crossFs,
                        sw_stop, swPc, now, move_cutoff, delete_cutoff,
                        camTodo, curCam, sleepLeft, clock, primary, pMtime,
                        backupDirs, everSeen, cycles, startPrimary,
                        startBackup, movedNow, deletedNow, sleepsAfterStop,
                        stopCalledIn >>
        /\ UNCHANGED nonSweepVars

\* retention_manager.py:73-77, inner glob of one backup directory
ExpireNextDir ==
    \E c \in Cams :
        /\ swPc = "expire_dirs"
        /\ c \in camTodo
        /\ camTodo' = camTodo \ {c}
        /\ curCam' = c
        /\ fileTodo' = { f \in backup : f[1] = c }
        /\ swPc' = "expire_files"
        /\ UNCHANGED << retention_days, backup_retention_days, crossFs,
                        sw_stop, now, move_cutoff, delete_cutoff,
                        sleepLeft, swLog, clock, primary, backup, pMtime,
                        bMtime, backupDirs, everSeen, cycles, cycleClean,
                        startPrimary, startBackup, movedNow, deletedNow,
                        envOps, sleepsAfterStop,
                        stopCalledIn >>
        /\ UNCHANGED nonSweepVars

\* retention_manager.py:92, the sleep loop begins
ExpireDirsDone ==
    /\ swPc = "expire_dirs"
    /\ camTodo = {}
    /\ swPc' = "sleep"
    /\ sleepLeft' = SleepTicks
    /\ UNCHANGED << retention_days, backup_retention_days, crossFs,
                    sw_stop, now, move_cutoff, delete_cutoff, camTodo,
                    curCam, fileTodo, swLog, clock, primary, backup,
                    pMtime, bMtime, backupDirs, everSeen, cycles,
                    cycleClean, startPrimary, startBackup, movedNow,
                    deletedNow, envOps, sleepsAfterStop,
                    stopCalledIn >>
    /\ UNCHANGED nonSweepVars

\* retention_manager.py:77, inner glob exhausted
ExpireFilesDone ==
    /\ swPc = "expire_files"
    /\ fileTodo = {}
    /\ swPc' = "expire_dirs"
    /\ UNCHANGED << retention_days, backup_retention_days, crossFs,
                    sw_stop, now, move_cutoff, delete_cutoff, camTodo,
                    curCam, fileTodo, sleepLeft, swLog, clock, primary,
                    backup, pMtime, bMtime, backupDirs, everSeen, cycles,
                    cycleClean, startPrimary, startBackup, movedNow,
                    deletedNow, envOps, sleepsAfterStop,
                    stopCalledIn >>
    /\ UNCHANGED nonSweepVars

\* retention_manager.py:79 or 83 raises FileNotFoundError -> 87-89
ExpireGone ==
    \E f \in Files :
        /\ swPc = "expire_files"
        /\ f \in fileTodo
        /\ f \notin backup
        /\ fileTodo' = fileTodo \ {f}
        /\ UNCHANGED << retention_days, backup_retention_days, crossFs,
                        sw_stop, swPc, now, move_cutoff, delete_cutoff,
                        camTodo, curCam, sleepLeft, swLog, clock, primary,
                        backup, pMtime, bMtime, backupDirs, everSeen,
                        cycles, cycleClean, startPrimary, startBackup,
                        movedNow, deletedNow, envOps, sleepsAfterStop,
                        stopCalledIn >>
        /\ UNCHANGED nonSweepVars

\* retention_manager.py:79-82, the file is not old enough
ExpireSkip ==
    \E f \in Files :
        /\ swPc = "expire_files"
        /\ f \in fileTodo
        /\ f \in backup
        /\ ~DeleteDue(bMtime[f], delete_cutoff)
        /\ fileTodo' = fileTodo \ {f}
        /\ UNCHANGED << retention_days, backup_retention_days, crossFs,
                        sw_stop, swPc, now, move_cutoff, delete_cutoff,
                        camTodo, curCam, sleepLeft, swLog, clock, primary,
                        backup, pMtime, bMtime, backupDirs, everSeen,
                        cycles, cycleClean, startPrimary, startBackup,
                        movedNow, deletedNow, envOps, sleepsAfterStop,
                        stopCalledIn >>
        /\ UNCHANGED nonSweepVars

\* retention_manager.py:82-86
ExpireDelete ==
    \E f \in Files :
        /\ swPc = "expire_files"
        /\ f \in fileTodo
        /\ f \in backup
        /\ DeleteDue(bMtime[f], delete_cutoff)
        /\ fileTodo' = fileTodo \ {f}
        /\ backup' = backup \ {f}
        /\ bMtime' = [bMtime EXCEPT ![f] = 0]
        /\ deletedNow' = deletedNow \cup {f}
        /\ swLog' = "deleted"
        /\ UNCHANGED << retention_days, backup_retention_days, crossFs,
                        sw_stop, swPc, now, move_cutoff, delete_cutoff,
                        camTodo, curCam, sleepLeft, clock, primary, pMtime,
                        backupDirs, everSeen, cycles, cycleClean,
                        startPrimary, startBackup, movedNow, envOps,
                        sleepsAfterStop,
                        stopCalledIn >>
        /\ UNCHANGED nonSweepVars

\* retention_manager.py:79 or 83 raises an OSError that is not
\* FileNotFoundError: nothing catches it and run() ends
ExpireOSError ==
    \E f \in Files :
        /\ swPc = "expire_files"
        /\ f \in fileTodo
        /\ f \in backup
        /\ envOps < MaxEnvOps
        /\ envOps' = envOps + 1
        /\ swPc' = "crashed"
        /\ cycleClean' = FALSE
        /\ UNCHANGED << retention_days, backup_retention_days, crossFs,
                        sw_stop, now, move_cutoff, delete_cutoff, camTodo,
                        curCam, fileTodo, sleepLeft, swLog, clock, primary,
                        backup, pMtime, bMtime, backupDirs, everSeen,
                        cycles, startPrimary, startBackup, movedNow,
                        deletedNow, sleepsAfterStop,
                        stopCalledIn >>
        /\ UNCHANGED nonSweepVars

\* retention_manager.py:92-94
SleepCheck ==
    /\ swPc = "sleep"
    /\ swPc' = IF WaitEnds(sw_stop, sleepLeft) THEN "top" ELSE "sleeping"
    /\ UNCHANGED << retention_days, backup_retention_days, crossFs,
                    sw_stop, now, move_cutoff, delete_cutoff, camTodo,
                    curCam, fileTodo, sleepLeft, swLog, clock, primary,
                    backup, pMtime, bMtime, backupDirs, everSeen, cycles,
                    cycleClean, startPrimary, startBackup, movedNow,
                    deletedNow, envOps, sleepsAfterStop,
                    stopCalledIn >>
    /\ UNCHANGED nonSweepVars

\* retention_manager.py:95
SleepOne ==
    /\ swPc = "sleeping"
    /\ sleepLeft' = sleepLeft - 1
    /\ swPc' = "sleep"
    /\ sleepsAfterStop' = IF sw_stop THEN sleepsAfterStop + 1 ELSE sleepsAfterStop
    /\ UNCHANGED << retention_days, backup_retention_days, crossFs,
                    sw_stop, now, move_cutoff, delete_cutoff, camTodo,
                    curCam, fileTodo, swLog, clock, primary, backup,
                    pMtime, bMtime, backupDirs, everSeen, cycles,
                    cycleClean, startPrimary, startBackup, movedNow,
                    deletedNow, envOps,
                    stopCalledIn >>
    /\ UNCHANGED nonSweepVars

\* retention_manager.py:18-19
SweepStop ==
    /\ ~sw_stop
    /\ sw_stop' = TRUE
    /\ stopCalledIn' =
          IF swPc = "not_started" THEN "not_started"
          ELSE IF swPc \in {"move_dirs", "move_files"} THEN "move"
          ELSE "later"
    /\ UNCHANGED << retention_days, backup_retention_days, crossFs, swPc,
                    now, move_cutoff, delete_cutoff, camTodo, curCam,
                    fileTodo, sleepLeft, swLog, clock, primary, backup,
                    pMtime, bMtime, backupDirs, everSeen, cycles,
                    cycleClean, startPrimary, startBackup, movedNow,
                    deletedNow, envOps, sleepsAfterStop >>
    /\ UNCHANGED nonSweepVars

\* ------------------------------------- sweeper: clock and other processes

\* the clock moves on by a day; a scan takes seconds, so a day ends only
\* before run() starts or while it sleeps
Tick ==
    /\ swPc \in {"not_started", "sleeping"}
    /\ clock < MaxClock
    /\ clock' = clock + 1
    /\ UNCHANGED << retention_days, backup_retention_days, crossFs,
                    sw_stop, swPc, now, move_cutoff, delete_cutoff,
                    camTodo, curCam, fileTodo, sleepLeft, swLog, primary,
                    backup, pMtime, bMtime, backupDirs, everSeen, cycles,
                    cycleClean, startPrimary, startBackup, movedNow,
                    deletedNow, envOps, sleepsAfterStop,
                    stopCalledIn >>
    /\ UNCHANGED nonSweepVars

\* ffmpeg closes a new segment file (camera_recorder.py:49)
EnvCreate ==
    \E f \in Files :
        /\ SweeperRuns
        /\ envOps < MaxEnvOps
        /\ f \notin everSeen
        /\ envOps' = envOps + 1
        /\ primary' = primary \cup {f}
        /\ pMtime' = [pMtime EXCEPT ![f] = clock]
        /\ everSeen' = everSeen \cup {f}
        /\ UNCHANGED << retention_days, backup_retention_days, crossFs,
                        sw_stop, swPc, now, move_cutoff, delete_cutoff,
                        camTodo, curCam, fileTodo, sleepLeft, swLog, clock,
                        backup, bMtime, backupDirs, cycles, cycleClean,
                        startPrimary, startBackup, movedNow, deletedNow,
                        sleepsAfterStop,
                        stopCalledIn >>
        /\ UNCHANGED nonSweepVars

\* another process removes a file from the primary tree
EnvRemovePrimary ==
    \E f \in Files :
        /\ SweeperRuns
        /\ envOps < MaxEnvOps
        /\ f \in primary
        /\ envOps' = envOps + 1
        /\ primary' = primary \ {f}
        /\ pMtime' = [pMtime EXCEPT ![f] = 0]
        /\ cycleClean' = FALSE
        /\ UNCHANGED << retention_days, backup_retention_days, crossFs,
                        sw_stop, swPc, now, move_cutoff, delete_cutoff,
                        camTodo, curCam, fileTodo, sleepLeft, swLog, clock,
                        backup, bMtime, backupDirs, everSeen, cycles,
                        startPrimary, startBackup, movedNow, deletedNow,
                        sleepsAfterStop,
                        stopCalledIn >>
        /\ UNCHANGED nonSweepVars

\* another process removes a file from the backup tree
EnvRemoveBackup ==
    \E f \in Files :
        /\ SweeperRuns
        /\ envOps < MaxEnvOps
        /\ f \in backup
        /\ envOps' = envOps + 1
        /\ backup' = backup \ {f}
        /\ bMtime' = [bMtime EXCEPT ![f] = 0]
        /\ cycleClean' = FALSE
        /\ UNCHANGED << retention_days, backup_retention_days, crossFs,
                        sw_stop, swPc, now, move_cutoff, delete_cutoff,
                        camTodo, curCam, fileTodo, sleepLeft, swLog, clock,
                        primary, pMtime, backupDirs, everSeen, cycles,
                        startPrimary, startBackup, movedNow, deletedNow,
                        sleepsAfterStop,
                        stopCalledIn >>
        /\ UNCHANGED nonSweepVars

SweepNext ==
    \/ SweepStart \/ CycleExit \/ CycleBegin \/ MoveNextDir
    \/ MoveMkdirFail \/ MoveDirsDone \/ MoveFilesDone \/ MoveGone
    \/ MoveOSError \/ MoveSkip \/ MoveRename \/ MoveCopy
    \/ MoveCopyPartial \/ MoveUnlinkFail \/ ExpireNextDir \/ ExpireDirsDone
    \/ ExpireFilesDone \/ ExpireGone \/ ExpireSkip \/ ExpireDelete
    \/ ExpireOSError \/ SleepCheck \/ SleepOne \/ SweepStop
    \/ Tick \/ EnvCreate \/ EnvRemovePrimary \/ EnvRemoveBackup

\* ------------------------------------------------------- sanitizer
\* "rtsp://", the literal head of _RTSP_CRED_PATTERN
RtspHead == <<"r","t","s","p",":","/","/">>

\* a replacement that drops the "@" the pattern consumed
Replacement_NoAt ==
    <<"r","t","s","p",":","/","/","$","R","T","S","P","_","U","S","E","R",":","$","R","T","S","P","_","P","A","S","S","W","O","R","D">>

\* "rtsp://$RTSP_USER:$RTSP_PASSWORD@", the replacement of line 19
Replacement ==
    <<"r","t","s","p",":","/","/","$","R","T","S","P","_","U","S","E","R",":","$","R","T","S","P","_","P","A","S","S","W","O","R","D","@">>

\* "$RTSP_USER" and "$RTSP_PASSWORD", the two placeholder tokens
PlaceholderUser == <<"$","R","T","S","P","_","U","S","E","R">>
PlaceholderPassword == <<"$","R","T","S","P","_","P","A","S","S","W","O","R","D">>

\* number of characters of s from position i on that are not in `stops`
RECURSIVE RunLen(_, _, _)
RunLen(s, i, stops) ==
    IF i > Len(s) \/ s[i] \in stops THEN 0 ELSE 1 + RunLen(s, i + 1, stops)

\* rtsp_sanitizing_filter.py:6, rtsp://([^:@]+):([^@]+)@ tried at position i:
\* the position of the closing "@" of the match, 0 when there is no match.
\* Both groups are greedy runs that the next literal must follow, so a match
\* at i is unique.
MatchEnd(s, i) ==
    LET u == i + Len(RtspHead)
        n1 == RunLen(s, u, {":", "@"})
        c == u + n1
        n2 == RunLen(s, c + 1, {"@"})
        a == c + 1 + n2
    IN  IF /\ i + Len(RtspHead) - 1 <= Len(s)
           /\ SubSeq(s, i, i + Len(RtspHead) - 1) = RtspHead
           /\ n1 >= 1
           /\ c <= Len(s) /\ s[c] = ":"
           /\ n2 >= 1
           /\ a <= Len(s) /\ s[a] = "@"
        THEN a ELSE 0

\* re.sub from position i on: leftmost matches, not overlapping
RECURSIVE SubFrom(_, _)
SubFrom(s, i) ==
    IF i > Len(s) THEN << >>
    ELSE IF MatchEnd(s, i) > 0
         THEN Replacement \o SubFrom(s, MatchEnd(s, i) + 1)
         ELSE << s[i] >> \o SubFrom(s, i + 1)

\* rtsp_sanitizing_filter.py:9-21
sanitize_rtsp_url(text) == SubFrom(text, 1)

\* text before the URL: "", "in "
Pres ==
    { <<>>,
      <<"i","n"," ">> }

\* the scheme as written: "rtsp", "RTSP" (utils/config.py:461 accepts both)
Schemes ==
    { <<"r","t","s","p">>,
      <<"R","T","S","P">> }

\* user names: "usr", "admin"
Users ==
    { <<"u","s","r">>,
      <<"a","d","m","i","n">> }

\* passwords: "pw1", "pw:1", "pw@1", "pw/1"
Passwords ==
    { <<"p","w","1">>,
      <<"p","w",":","1">>,
      <<"p","w","@","1">>,
      <<"p","w","/","1">> }

\* hosts: "h", "h:554"
Hosts ==
    { <<"h">>,
      <<"h",":","5","5","4">> }

\* paths: "", "/s"
Paths ==
    { <<>>,
      <<"/","s">> }

\* text after the URL: "", " ok", " rtsp://v:w@g/t"
Posts ==
    { <<>>,
      <<" ","o","k">>,
      <<" ","r","t","s","p",":","/","/","v",":","w","@","g","/","t">> }

\* the text scheme://user:pw@host/path with what precedes and follows it
UrlText(r) ==
    r.pre \o r.scheme \o <<":","/","/">> \o r.user \o <<":">> \o r.pw \o <<"@">>
          \o r.host \o r.path \o r.post

SanInit ==
    /\ san_in \in [ pre : Pres, scheme : Schemes, user : Users,
                    pw : Passwords, host : Hosts, path : Paths,
                    post : Posts ]
    /\ san_out = << >>
    /\ san_twice = << >>
    /\ sanPc = "input"

\* the sanitizer at rest, for the specifications that do not run it
SanIdle ==
    /\ san_in = << >>
    /\ san_out = << >>
    /\ san_twice = << >>
    /\ sanPc = "input"

\* sanitize_rtsp_url(text)
SanitizeOnce ==
    /\ sanPc = "input"
    /\ san_out' = sanitize_rtsp_url(UrlText(san_in))
    /\ sanPc' = "once"
    /\ UNCHANGED << san_in, san_twice >>
    /\ UNCHANGED nonSanVars

\* sanitize_rtsp_url applied to its own output
SanitizeTwice ==
    /\ sanPc = "once"
    /\ san_twice' = sanitize_rtsp_url(san_out)
    /\ sanPc' = "twice"
    /\ UNCHANGED << san_in, san_out >>
    /\ UNCHANGED nonSanVars

SanNext == SanitizeOnce \/ SanitizeTwice

\* --------------------------------------------------- persisted text
\* the line terminator
NL == << "\n" >>

\* str.rstrip("\n"), camera_recorder.py:164
RECURSIVE RStripNewline(_)
RStripNewline(s) ==
    IF Len(s) > 0 /\ s[Len(s)] = "\n"
    THEN RStripNewline(SubSeq(s, 1, Len(s) - 1))
    ELSE s

\* str.startswith, camera_recorder.py:133
StartsWith(s, p) == Len(p) <= Len(s) /\ SubSeq(s, 1, Len(p)) = p

\* " ".join(parts), camera_recorder.py:141
RECURSIVE Join(_)
Join(parts) ==
    IF Len(parts) = 0 THEN << >>
    ELSE IF Len(parts) = 1 THEN parts[1]
    ELSE parts[1] \o << " " >> \o Join(Tail(parts))

\* a drain that writes the line as it was read
PersistedLine_Raw(line) == RStripNewline(line) \o NL

\* camera_recorder.py:164-166: what one line read from the pipe puts into the
\* per-source log
PersistedLine(line) == sanitize_rtsp_url(RStripNewline(line)) \o NL

\* camera_recorder.py:130-136, the command with its rtsp:// parts sanitized
RECURSIVE SafeCmd(_)
SafeCmd(cmd) ==
    IF Len(cmd) = 0 THEN << >>
    ELSE << IF StartsWith(cmd[1], RtspHead)
            THEN sanitize_rtsp_url(cmd[1]) ELSE cmd[1] >>
         \o SafeCmd(Tail(cmd))

\* camera_recorder.py:36-73 build_ffmpeg_command, shortened to three parts
BuildCmd(url) ==
    << <<"f","f","m","p","e","g">>, <<"-","i">>, url, <<"o",".","m","p","4">> >>

\* "Starting ffmpeg: %s" % text, camera_recorder.py:138-142
StartingMsg(text) == <<"S","t","a","r","t","i","n","g"," ","f","f","m","p","e","g",":"," ">> \o text

\* a filter that hands the message on as it came
FilterMessage_Raw(msg) == msg

\* rtsp_sanitizing_filter.py:29-38, RtspSanitizingFilter.filter: the message a
\* handler formats
FilterMessage(msg) == sanitize_rtsp_url(msg)

\* log/logger.py:77-80, the formatter's prefix without the time
HandlerPrefix == <<"[","I","N","F","O","]"," ","n","v","r",":"," ">>

\* the line a handler emits, with its terminator
HandlerLine(msg) == HandlerPrefix \o msg \o NL

\* logging/logger.py:34-46, Logger.sanitize_rtsp_url: the same pattern and
\* replacement through re.sub
Logger_sanitize_rtsp_url(text) == SubFrom(text, 1)

\* logging/logger.py:55-57, the prefix of a line of Logger.log
LoggerPrefix == <<"[","t","s","]"," ">>

\* logging/logger.py:55-57, the line Logger.log builds
LoggerLine(msg) == LoggerPrefix \o Logger_sanitize_rtsp_url(msg) \o NL

\* lines as the pipe delivers them: "f=1", "rtsp://usr:pw1@h/s: 401",
\* "in RTSP://usr:pw1@h", each with its newline
PipeLines ==
    { <<"f","=","1","\n">>,
      <<"r","t","s","p",":","/","/","u","s","r",":","p","w","1","@","h","/","s",":"," ","4","0","1","\n">>,
      <<"i","n"," ","R","T","S","P",":","/","/","u","s","r",":","p","w","1","@","h","\n">> }

\* source URLs that pass the validation of camera_recorder.py:112-116:
\* "rtsp://usr:pw1@h/s", "rtsp://usr:pw@1@h"
CmdUrls ==
    { <<"r","t","s","p",":","/","/","u","s","r",":","p","w","1","@","h","/","s">>,
      <<"r","t","s","p",":","/","/","u","s","r",":","p","w","@","1","@","h">> }

\* other messages of the supervisor (camera_recorder.py:117-121, 178-183)
SupMessages ==
    { <<"I","n","v","a","l","i","d"," ","R","T","S","P"," ","U","R","L",":"," ","'","r","t","s","p",":","/","/","u",":","{","R","T","S","P","_","P","A","S","S","W","O","R","D","}","@","h","'">>,
      <<"f","f","m","p","e","g"," ","e","x","i","t","e","d"," ","w","i","t","h"," ","c","o","d","e"," ","1">> }

\* messages of the sweeper (retention_manager.py:28, 58-60)
SweepMessages ==
    { <<"R","e","t","e","n","t","i","o","n"," ","m","a","n","a","g","e","r"," ","s","t","a","r","t","e","d">>,
      <<"[","R","e","t","e","n","t","i","o","n","]"," ","M","o","v","e","d"," ","o","l","d"," ","f","i","l","e"," ","t","o"," ","b","a","c","k","u","p",":"," ","b","/","f","r","o","n","t","/","s","1",".","m","p","4">> }

\* the two loggers constructed, nothing read or written yet
PersistInit ==
    /\ log_file_path \in {"None", "set"}
    /\ rawLines = << >>
    /\ cameraLog = << >>
    /\ appMsgs = << >>
    /\ appLog = << >>
    /\ perPc = "attempt"
    /\ lostLines = {}

\* no line read and nothing written yet
PersistRest ==
    /\ rawLines = << >>
    /\ cameraLog = << >>
    /\ appMsgs = << >>
    /\ appLog = << >>
    /\ perPc = "attempt"
    /\ lostLines = {}

\* the logs at rest, for the specifications that do not write them
PersistIdle == log_file_path = "None" /\ PersistRest

\* camera_recorder.py:130-151: the command is echoed through the logger and
\* its filter, then the subprocess starts
EchoCommand ==
    \E url \in CmdUrls :
        /\ perPc = "attempt"
        /\ Len(appMsgs) < MaxAppMsgs
        /\ appMsgs' = Append(appMsgs, StartingMsg(Join(BuildCmd(url))))
        /\ appLog' = Append(appLog,
              [ sink |-> "file",
                text |-> HandlerLine(FilterMessage(
                            StartingMsg(Join(SafeCmd(BuildCmd(url)))))) ])
        /\ perPc' = "drain"
        /\ UNCHANGED << log_file_path, rawLines, cameraLog, lostLines >>
        /\ UNCHANGED nonPersistVars

\* camera_recorder.py:160-166: one line read, sanitized and written
PersistLine ==
    \E line \in PipeLines :
        /\ perPc = "drain"
        /\ Len(rawLines) < MaxRawLines
        /\ rawLines' = Append(rawLines, RStripNewline(line))
        /\ cameraLog' = Append(cameraLog, PersistedLine(line))
        /\ UNCHANGED << log_file_path, appMsgs, appLog, perPc, lostLines >>
        /\ UNCHANGED nonPersistVars

\* camera_recorder.py:166 raises OSError: the line is read and not written,
\* the handler of 185-190 ends the attempt
PersistWriteFail ==
    \E line \in PipeLines :
        /\ perPc = "drain"
        /\ Len(rawLines) < MaxRawLines
        /\ lostLines = {}
        /\ rawLines' = Append(rawLines, RStripNewline(line))
        /\ lostLines' = lostLines \cup { Len(rawLines) + 1 }
        /\ perPc' = "attempt"
        /\ UNCHANGED << log_file_path, cameraLog, appMsgs, appLog >>
        /\ UNCHANGED nonPersistVars

\* camera_recorder.py:160, 177: end of output, the attempt is over
PersistEOF ==
    /\ perPc = "drain"
    /\ perPc' = "attempt"
    /\ UNCHANGED << log_file_path, rawLines, cameraLog, appMsgs, appLog,
                    lostLines >>
    /\ UNCHANGED nonPersistVars

\* any other self.logger call of the supervisor: log/logger.py handlers with
\* the RtspSanitizingFilter of lines 94-96
SupLogs ==
    \E msg \in SupMessages :
        /\ Len(appMsgs) < MaxAppMsgs
        /\ appMsgs' = Append(appMsgs, msg)
        /\ appLog' = Append(appLog,
              [ sink |-> "file", text |-> HandlerLine(FilterMessage(msg)) ])
        /\ UNCHANGED << log_file_path, rawLines, cameraLog, perPc,
                        lostLines >>
        /\ UNCHANGED nonPersistVars

\* logging/logger.py:48-67, Logger.log called by the sweeper
SweeperLogs ==
    \E msg \in SweepMessages :
        /\ Len(appMsgs) < MaxAppMsgs
        /\ appMsgs' = Append(appMsgs, msg)
        /\ appLog' = Append(appLog,
              [ sink |-> IF log_file_path = "None" THEN "stdout" ELSE "file",
                text |-> LoggerLine(msg) ])
        /\ UNCHANGED << log_file_path, rawLines, cameraLog, perPc,
                        lostLines >>
        /\ UNCHANGED nonPersistVars

PersistNext ==
    \/ EchoCommand
    \/ PersistLine
    \/ PersistWriteFail
    \/ PersistEOF
    \/ SupLogs
    \/ SweeperLogs

\* ------------------------------------------------------ main: shutdown
\* the units main() starts: the cleaner and recorders 1..nRecorders
Units == {0} \cup (1..nRecorders)

\* a shutdown that waits for the cleaner right after stopping it
AfterCleanerStop_JoinFirst == "join_cleaner"

\* nvr.py:307-308: after cleaner.stop() comes the loop that stops the recorders
AfterCleanerStop == "stop_recs"

\* nvr.py:274-300: the recorders and the cleaner are started, main waits
ShutInit ==
    /\ main_stop = FALSE
    /\ mainPc = "waiting"
    /\ nRecorders \in 0..MaxRecorders
    /\ recIdx = 1
    /\ stopCalled = {}
    /\ joinCalled = {}
    /\ finished = {}

\* main() at rest, for the specifications that do not run it
ShutIdle ==
    /\ main_stop = FALSE
    /\ mainPc = "waiting"
    /\ nRecorders = 0
    /\ recIdx = 1
    /\ stopCalled = {}
    /\ joinCalled = {}
    /\ finished = {}

\* nvr.py:295-297, handle_signal
Signal ==
    /\ ~main_stop
    /\ main_stop' = TRUE
    /\ UNCHANGED << mainPc, nRecorders, recIdx, stopCalled, joinCalled,
                    finished >>
    /\ UNCHANGED nonShutVars

\* nvr.py:303-306, the wait loop ends and "Stopping recorders..." is logged
WaitOver ==
    /\ mainPc = "waiting"
    /\ main_stop
    /\ mainPc' = "stop_cleaner"
    /\ UNCHANGED << main_stop, nRecorders, recIdx, stopCalled, joinCalled,
                    finished >>
    /\ UNCHANGED nonShutVars

\* nvr.py:306, log() raises (the log file cannot be opened): main() dies
\* before any stop() or join()
StopLogFails ==
    /\ mainPc = "waiting"
    /\ main_stop
    /\ mainPc' = "crashed"
    /\ UNCHANGED << main_stop, nRecorders, recIdx, stopCalled, joinCalled,
                    finished >>
    /\ UNCHANGED nonShutVars

\* nvr.py:307, cleaner.stop()
StopCleaner ==
    /\ mainPc = "stop_cleaner"
    /\ stopCalled' = stopCalled \cup {0}
    /\ mainPc' = AfterCleanerStop
    /\ recIdx' = 1
    /\ UNCHANGED << main_stop, nRecorders, joinCalled, finished >>
    /\ UNCHANGED nonShutVars

\* nvr.py:308-309, rec.stop() for the next recorder
StopRecorder ==
    /\ mainPc = "stop_recs"
    /\ recIdx <= nRecorders
    /\ stopCalled' = stopCalled \cup {recIdx}
    /\ recIdx' = recIdx + 1
    /\ UNCHANGED << main_stop, mainPc, nRecorders, joinCalled, finished >>
    /\ UNCHANGED nonShutVars

\* nvr.py:308-311, the stop loop is exhausted and cleaner.join() is called
JoinCleanerCall ==
    /\ mainPc \in {"stop_recs", "join_cleaner"}
    /\ mainPc = "stop_recs" => recIdx > nRecorders
    /\ joinCalled' = joinCalled \cup {0}
    /\ mainPc' = "joining_cleaner"
    /\ recIdx' = 1
    /\ UNCHANGED << main_stop, nRecorders, stopCalled, finished >>
    /\ UNCHANGED nonShutVars

\* nvr.py:311, cleaner.join() returns once the cleaner thread has ended
JoinCleanerReturn ==
    /\ mainPc = "joining_cleaner"
    /\ 0 \in finished
    /\ mainPc' = "join_recs"
    /\ UNCHANGED << main_stop, nRecorders, recIdx, stopCalled, joinCalled,
                    finished >>
    /\ UNCHANGED nonShutVars

\* nvr.py:312-313, rec.join() is called for the next recorder
JoinRecorderCall ==
    /\ mainPc = "join_recs"
    /\ recIdx <= nRecorders
    /\ joinCalled' = joinCalled \cup {recIdx}
    /\ mainPc' = "joining_rec"
    /\ UNCHANGED << main_stop, nRecorders, recIdx, stopCalled, finished >>
    /\ UNCHANGED nonShutVars

\* nvr.py:313, rec.join() returns once that recorder thread has ended
JoinRecorderReturn ==
    /\ mainPc = "joining_rec"
    /\ recIdx \in finished
    /\ recIdx' = recIdx + 1
    /\ mainPc' = "join_recs"
    /\ UNCHANGED << main_stop, nRecorders, stopCalled, joinCalled, finished >>
    /\ UNCHANGED nonShutVars

\* nvr.py:312-315, the join loop is exhausted: "All recorders stopped"
AllJoined ==
    /\ mainPc = "join_recs"
    /\ recIdx > nRecorders
    /\ mainPc' = "done"
    /\ UNCHANGED << main_stop, nRecorders, recIdx, stopCalled, joinCalled,
                    finished >>
    /\ UNCHANGED nonShutVars

\* nvr.py:151, 205-206 and 226, 241-242: a unit whose stop() was called leaves
\* its loop and run() returns
UnitReturns ==
    \E u \in Units :
        /\ u \in stopCalled
        /\ u \notin finished
        /\ finished' = finished \cup {u}
        /\ UNCHANGED << main_stop, mainPc, nRecorders, recIdx, stopCalled,
                        joinCalled >>
        /\ UNCHANGED nonShutVars

\* nvr.py:152 or 233-235: an exception outside every try (mkdir in
\* build_ffmpeg_command, PermissionError on stat or unlink) ends the thread
UnitDies ==
    \E u \in Units :
        /\ u \notin stopCalled
        /\ u \notin finished
        /\ finished' = finished \cup {u}
        /\ UNCHANGED << main_stop, mainPc, nRecorders, recIdx, stopCalled,
                        joinCalled >>
        /\ UNCHANGED nonShutVars

ShutNext ==
    \/ Signal \/ WaitOver \/ StopLogFails \/ StopCleaner
    \/ StopRecorder \/ JoinCleanerCall \/ JoinCleanerReturn
    \/ JoinRecorderCall \/ JoinRecorderReturn \/ AllJoined
    \/ UnitReturns \/ UnitDies

\* -------------------------------------------------- shared log: writers
\* threads that log through the handlers of log/logger.py (CameraRecorder)
HandlerWriters == {"rec1", "rec2"}

\* threads that log through Logger.log of logging/logger.py (RetentionManager,
\* RetentionCleaner)
LoggerWriters == {"sweeper", "cleaner"}

Writers == HandlerWriters \cup LoggerWriters

\* logging/logger.py:18-27 and log/logger.py:39-69: both loggers constructed,
\* the locks free; init_from_config (29-32) has run or has not
LockInit ==
    /\ log_lock = "free"
    /\ handler_lock = "free"
    /\ wPc = [t \in Writers |-> "idle"]
    /\ log_file_path \in {"None", "set"}
    /\ PersistRest

\* the writers at rest, for the specifications that do not run them
LockIdle ==
    /\ log_lock = "free"
    /\ handler_lock = "free"
    /\ wPc = [t \in Writers |-> "idle"]

\* log/logger.py:93-96: self.logger.info(...) reaches the file handler, whose
\* filter sanitizes the record
HandlerFilter ==
    \E t \in HandlerWriters :
        /\ wPc[t] = "idle"
        /\ wPc' = [wPc EXCEPT ![t] = "filtered"]
        /\ UNCHANGED << log_lock, handler_lock >>
        /\ UNCHANGED nonLockVars

\* logging.Handler.handle takes the handler's own lock (the handler made at
\* log/logger.py:83-86)
HandlerAcquire ==
    \E t \in HandlerWriters :
        /\ wPc[t] = "filtered"
        /\ handler_lock = "free"
        /\ handler_lock' = t
        /\ wPc' = [wPc EXCEPT ![t] = "emit"]
        /\ UNCHANGED log_lock
        /\ UNCHANGED nonLockVars

\* FileHandler.emit: the line is written to nvr.log and flushed
HandlerEmit ==
    \E t \in HandlerWriters :
        /\ wPc[t] = "emit"
        /\ wPc' = [wPc EXCEPT ![t] = "emitted"]
        /\ UNCHANGED << log_lock, handler_lock >>
        /\ UNCHANGED nonLockVars

\* logging.Handler.handle releases the handler's lock
HandlerRelease ==
    \E t \in HandlerWriters :
        /\ wPc[t] = "emitted"
        /\ handler_lock' = "free"
        /\ wPc' = [wPc EXCEPT ![t] = "idle"]
        /\ UNCHANGED log_lock
        /\ UNCHANGED nonLockVars

\* logging/logger.py:55-59: the line is built and log_file_path is tested
LogCheckPath ==
    \E t \in LoggerWriters :
        /\ wPc[t] = "idle"
        /\ wPc' = [wPc EXCEPT ![t] =
                     IF log_file_path = "None" THEN "print" ELSE "acquire"]
        /\ UNCHANGED << log_lock, handler_lock >>
        /\ UNCHANGED nonLockVars

\* logging/logger.py:61-62: print to stdout, outside the lock
LogPrint ==
    \E t \in LoggerWriters :
        /\ wPc[t] = "print"
        /\ wPc' = [wPc EXCEPT ![t] = "idle"]
        /\ UNCHANGED << log_lock, handler_lock >>
        /\ UNCHANGED nonLockVars

\* logging/logger.py:64, with self.log_lock
LogAcquire ==
    \E t \in LoggerWriters :
        /\ wPc[t] = "acquire"
        /\ log_lock = "free"
        /\ log_lock' = t
        /\ wPc' = [wPc EXCEPT ![t] = "open"]
        /\ UNCHANGED handler_lock
        /\ UNCHANGED nonLockVars

\* logging/logger.py:65, open(self.log_file_path, "a")
LogOpen ==
    \E t \in LoggerWriters :
        /\ wPc[t] = "open"
        /\ wPc' = [wPc EXCEPT ![t] = "write"]
        /\ UNCHANGED << log_lock, handler_lock >>
        /\ UNCHANGED nonLockVars

\* logging/logger.py:66-67, f.write(line) and f.flush()
LogWrite ==
    \E t \in LoggerWriters :
        /\ wPc[t] = "write"
        /\ wPc' = [wPc EXCEPT ![t] = "close"]
        /\ UNCHANGED << log_lock, handler_lock >>
        /\ UNCHANGED nonLockVars

\* logging/logger.py:64-67, the two with blocks end: the file is closed and
\* the lock released
LogRelease ==
    \E t \in LoggerWriters :
        /\ wPc[t] = "close"
        /\ log_lock' = "free"
        /\ wPc' = [wPc EXCEPT ![t] = "idle"]
        /\ UNCHANGED handler_lock
        /\ UNCHANGED nonLockVars

LockNext ==
    \/ HandlerFilter \/ HandlerAcquire \/ HandlerEmit \/ HandlerRelease
    \/ LogCheckPath \/ LogPrint \/ LogAcquire
    \/ LogOpen \/ LogWrite \/ LogRelease

\* ------------------------------------------------- units side by side
\* the threads main() starts: one CameraRecorder per camera and the
\* RetentionManager
ConcRecorders == {"cam1", "cam2", "cam3"}
AllUnits == ConcRecorders \cup {"sweeper"}

\* CameraRecorder.__init__ and RetentionManager.__init__: no subprocess yet,
\* each run() about to give its first message to the log
ConcLocals ==
    /\ uPc = [u \in AllUnits |-> IF u = "sweeper" THEN "log" ELSE "log_start"]
    /\ uProc = [r \in ConcRecorders |-> "none"]
    /\ uPipe = [r \in ConcRecorders |-> 0]

ConcInit ==
    /\ ConcLocals
    /\ log_lock = "free"
    /\ handler_lock = "free"
    /\ wPc = [t \in Writers |-> "idle"]
    /\ log_file_path \in {"None", "set"}
    /\ PersistRest

\* the units at rest, for the specifications that do not run them
\* camera_recorder.py:138-142 and 178-183: self.logger.info(...) reaches
\* logging.Handler.handle, which takes the lock of the file handler
RecLogAcquire(r) ==
    /\ uPc[r] \in {"log_start", "log_exit"}
    /\ handler_lock = "free"
    /\ handler_lock' = r
    /\ uPc' = [uPc EXCEPT ![r] =
                 IF uPc[r] = "log_start" THEN "emit_start" ELSE "emit_exit"]
    /\ UNCHANGED << uProc, uPipe, log_lock >>
    /\ UNCHANGED nonConcVars

\* a recorder that goes on without giving the handler's lock back
RecLogRelease_KeepLock(r) ==
    /\ uPc[r] \in {"emit_start", "emit_exit"}
    /\ handler_lock = r
    /\ uPc' = [uPc EXCEPT ![r] =
                 IF uPc[r] = "emit_start" THEN "spawn" ELSE "backoff"]
    /\ UNCHANGED << uProc, uPipe, log_lock, handler_lock >>
    /\ UNCHANGED nonConcVars

\* the line is written to nvr.log and logging.Handler.handle releases the
\* lock; run() goes on to Popen (line 145) or to the backoff (line 206)
RecLogRelease(r) ==
    /\ uPc[r] \in {"emit_start", "emit_exit"}
    /\ handler_lock = r
    /\ handler_lock' = "free"
    /\ uPc' = [uPc EXCEPT ![r] =
                 IF uPc[r] = "emit_start" THEN "spawn" ELSE "backoff"]
    /\ UNCHANGED << uProc, uPipe, log_lock >>
    /\ UNCHANGED nonConcVars

\* camera_recorder.py:145-159: Popen, the per-camera log file opened
RecSpawn(r) ==
    /\ uPc[r] = "spawn"
    /\ uProc' = [uProc EXCEPT ![r] = "live"]
    /\ uPipe' = [uPipe EXCEPT ![r] = 0]
    /\ uPc' = [uPc EXCEPT ![r] = "drain"]
    /\ UNCHANGED << log_lock, handler_lock >>
    /\ UNCHANGED nonConcVars

\* camera_recorder.py:160-174: a line is read and written to the recorder's
\* own log file; with no line to read the for statement blocks
RecDrainLine(r) ==
    /\ uPc[r] = "drain"
    /\ uPipe[r] > 0
    /\ uPipe' = [uPipe EXCEPT ![r] = uPipe[r] - 1]
    /\ UNCHANGED << uPc, uProc, log_lock, handler_lock >>
    /\ UNCHANGED nonConcVars

\* camera_recorder.py:160: end of file on stdout
RecDrainEOF(r) ==
    /\ uPc[r] = "drain"
    /\ uPipe[r] = 0
    /\ uProc[r] \in {"closed", "exited"}
    /\ uPc' = [uPc EXCEPT ![r] = "wait"]
    /\ UNCHANGED << uProc, uPipe, log_lock, handler_lock >>
    /\ UNCHANGED nonConcVars

\* camera_recorder.py:177: proc.wait() returns once the process has ended
RecWaitExit(r) ==
    /\ uPc[r] = "wait"
    /\ uProc[r] = "exited"
    /\ uPc' = [uPc EXCEPT ![r] = "log_exit"]
    /\ UNCHANGED << uProc, uPipe, log_lock, handler_lock >>
    /\ UNCHANGED nonConcVars

\* camera_recorder.py:206 and 108-142: time.sleep(5) returns and the next
\* iteration reaches its "Starting ffmpeg" message
RecBackoff(r) ==
    /\ uPc[r] = "backoff"
    /\ uPc' = [uPc EXCEPT ![r] = "log_start"]
    /\ UNCHANGED << uProc, uPipe, log_lock, handler_lock >>
    /\ UNCHANGED nonConcVars

\* the steps of one recorder thread
RecStep(r) ==
    \/ RecLogAcquire(r) \/ RecLogRelease(r) \/ RecSpawn(r)
    \/ RecDrainLine(r) \/ RecDrainEOF(r) \/ RecWaitExit(r) \/ RecBackoff(r)

\* logging/logger.py:59-62: no log file configured, the line is printed
SwPrint ==
    /\ uPc["sweeper"] = "log"
    /\ log_file_path = "None"
    /\ uPc' = [uPc EXCEPT !["sweeper"] = "scan"]
    /\ UNCHANGED << uProc, uPipe, log_lock, handler_lock >>
    /\ UNCHANGED nonConcVars

\* logging/logger.py:64: with self.log_lock
SwLogAcquire ==
    /\ uPc["sweeper"] = "log"
    /\ log_file_path # "None"
    /\ log_lock = "free"
    /\ log_lock' = "sweeper"
    /\ uPc' = [uPc EXCEPT !["sweeper"] = "write"]
    /\ UNCHANGED << uProc, uPipe, handler_lock >>
    /\ UNCHANGED nonConcVars

\* logging/logger.py:65-67: the line is appended and the lock released
SwLogRelease ==
    /\ uPc["sweeper"] = "write"
    /\ log_lock = "sweeper"
    /\ log_lock' = "free"
    /\ uPc' = [uPc EXCEPT !["sweeper"] = "scan"]
    /\ UNCHANGED << uProc, uPipe, handler_lock >>
    /\ UNCHANGED nonConcVars

\* retention_manager.py:42-89: the scan goes on to a file it moves or
\* deletes, which it logs (lines 58, 84)
SwScanFile ==
    /\ uPc["sweeper"] = "scan"
    /\ uPc' = [uPc EXCEPT !["sweeper"] = "log"]
    /\ UNCHANGED << uProc, uPipe, log_lock, handler_lock >>
    /\ UNCHANGED nonConcVars

\* retention_manager.py:92: the scan is over, the sleep loop begins
SwScanDone ==
    /\ uPc["sweeper"] = "scan"
    /\ uPc' = [uPc EXCEPT !["sweeper"] = "sleep"]
    /\ UNCHANGED << uProc, uPipe, log_lock, handler_lock >>
    /\ UNCHANGED nonConcVars

\* retention_manager.py:92-95 and 30-42: the sleep loop ends and the next
\* cycle begins its scan
SwWake ==
    /\ uPc["sweeper"] = "sleep"
    /\ uPc' = [uPc EXCEPT !["sweeper"] = "scan"]
    /\ UNCHANGED << uProc, uPipe, log_lock, handler_lock >>
    /\ UNCHANGED nonConcVars

\* the steps of the sweeper thread
SwStep ==
    \/ SwPrint \/ SwLogAcquire \/ SwLogRelease
    \/ SwScanFile \/ SwScanDone \/ SwWake

\* the steps of the thread of unit u
UnitStep(u) == IF u = "sweeper" THEN SwStep ELSE RecStep(u)

\* the ffmpeg of a recorder writes a line
UProcEmit ==
    \E r \in ConcRecorders :
        /\ uProc[r] = "live"
        /\ uPipe[r] < MaxUnitLines
        /\ uPipe' = [uPipe EXCEPT ![r] = uPipe[r] + 1]
        /\ UNCHANGED << uPc, uProc, log_lock, handler_lock >>
        /\ UNCHANGED nonConcVars

\* the ffmpeg of a recorder closes its output and keeps running
UProcClose ==
    \E r \in ConcRecorders :
        /\ uProc[r] = "live"
        /\ uProc' = [uProc EXCEPT ![r] = "closed"]
        /\ UNCHANGED << uPc, uPipe, log_lock, handler_lock >>
        /\ UNCHANGED nonConcVars

\* the ffmpeg of a recorder ends
UProcExit ==
    \E r \in ConcRecorders :
        /\ uProc[r] \in {"live", "closed"}
        /\ uProc' = [uProc EXCEPT ![r] = "exited"]
        /\ UNCHANGED << uPc, uPipe, log_lock, handler_lock >>
        /\ UNCHANGED nonConcVars


ConcNext ==
    \/ (\E r \in ConcRecorders : RecStep(r)) \/ SwStep
    \/ UProcEmit \/ UProcClose \/ UProcExit


\* ------------------------------------------------------------ singleton
\* utils/singleton.py:9, hasattr(cls, "_instance"): the attribute is looked up
\* on the class itself; Singleton, the only base that could hold one, is
\* never constructed
HasInstance(cls) == instance[cls] # 0

\* a second test that never finds the attribute
StillMissing_NoRecheck(cls) == TRUE

\* utils/singleton.py:11, the test repeated under the lock
StillMissing(cls) == ~HasInstance(cls)

\* no class has an instance, no thread is in a constructor
SingInit ==
    /\ instance = [c \in Classes |-> 0]
    /\ instance_lock = "free"
    /\ cPc = [t \in Threads |-> "idle"]
    /\ cCls = [t \in Threads |-> "none"]
    /\ nObjects = 0
    /\ created = [c \in Classes |-> 0]
    /\ returned = {}
    /\ nCalls = [t \in Threads |-> 0]

\* Config() or Logger() is called: utils/singleton.py:7
NewCall(t) ==
    \E c \in Classes :
        /\ cPc[t] = "idle"
        /\ nCalls[t] < MaxCalls
        /\ cCls' = [cCls EXCEPT ![t] = c]
        /\ cPc' = [cPc EXCEPT ![t] = "check"]
        /\ UNCHANGED << instance, instance_lock, nObjects, created, returned,
                        nCalls >>
        /\ UNCHANGED nonSingVars

\* utils/singleton.py:9
NewCheck(t) ==
    /\ cPc[t] = "check"
    /\ cPc' = [cPc EXCEPT ![t] = IF HasInstance(cCls[t]) THEN "return"
                                  ELSE "acquire"]
    /\ UNCHANGED << instance, instance_lock, cCls, nObjects, created,
                    returned, nCalls >>
    /\ UNCHANGED nonSingVars

\* utils/singleton.py:10, with cls._instance_lock: the one lock of the base
NewAcquire(t) ==
    /\ cPc[t] = "acquire"
    /\ instance_lock = "free"
    /\ instance_lock' = t
    /\ cPc' = [cPc EXCEPT ![t] = "recheck"]
    /\ UNCHANGED << instance, cCls, nObjects, created, returned, nCalls >>
    /\ UNCHANGED nonSingVars

\* utils/singleton.py:11
NewRecheck(t) ==
    /\ cPc[t] = "recheck"
    /\ cPc' = [cPc EXCEPT ![t] = IF StillMissing(cCls[t]) THEN "create"
                                  ELSE "release"]
    /\ UNCHANGED << instance, instance_lock, cCls, nObjects, created,
                    returned, nCalls >>
    /\ UNCHANGED nonSingVars

\* utils/singleton.py:12, cls._instance = super().__new__(cls)
NewCreate(t) ==
    /\ cPc[t] = "create"
    /\ nObjects' = nObjects + 1
    /\ created' = [created EXCEPT ![cCls[t]] = @ + 1]
    /\ instance' = [instance EXCEPT ![cCls[t]] = nObjects + 1]
    /\ cPc' = [cPc EXCEPT ![t] = "release"]
    /\ UNCHANGED << instance_lock, cCls, returned, nCalls >>
    /\ UNCHANGED nonSingVars

\* utils/singleton.py:10-12, the with block is left
NewRelease(t) ==
    /\ cPc[t] = "release"
    /\ instance_lock' = "free"
    /\ cPc' = [cPc EXCEPT ![t] = "return"]
    /\ UNCHANGED << instance, cCls, nObjects, created, returned, nCalls >>
    /\ UNCHANGED nonSingVars

\* utils/singleton.py:13, return cls._instance
NewReturn(t) ==
    /\ cPc[t] = "return"
    /\ returned' = returned \cup { << cCls[t], instance[cCls[t]] >> }
    /\ nCalls' = [nCalls EXCEPT ![t] = @ + 1]
    /\ cPc' = [cPc EXCEPT ![t] = "idle"]
    /\ UNCHANGED << instance, instance_lock, cCls, nObjects, created >>
    /\ UNCHANGED nonSingVars

SingNext ==
    \E t \in Threads :
        \/ NewCall(t) \/ NewCheck(t) \/ NewAcquire(t) \/ NewRecheck(t)
        \/ NewCreate(t) \/ NewRelease(t) \/ NewReturn(t)

\* ------------------------------------------------------ specifications
\* one supervisor whose build_ffmpeg_command returns, its subprocesses and
\* the caller of stop()
Init == SupInit /\ SweepIdle /\ SanIdle /\ PersistIdle /\ ShutIdle /\ LockIdle
            /\ ConcLocals /\ SingInit
Next == SupNext
Spec == Init /\ [][Next]_vars

\* the supervisor when creating the output directory can fail
FaultSpec == Init /\ [][SupNext \/ BuildFail]_vars

\* the steps of the CameraRecorder thread once it is started
RunStep ==
    \/ EnabledCheck \/ LoopExit \/ LoopEnter
    \/ ValidateBad \/ SleepSecond \/ Sleep10 \/ ValidateOk
    \/ SpawnOk \/ SpawnFail \/ OpenLogOk \/ OpenLogFail
    \/ DrainLine \/ DrainFail \/ DrainEOF \/ WaitExit
    \/ ExitCheck \/ Backoff

\* a process on which terminate() was called (camera_recorder.py:82) ends
\* and closes its output
TerminatedExits ==
    /\ ProcExit
    /\ \E p \in Pids :
          termReq[p] /\ procState[p] = "live" /\ procState'[p] = "exited"

\* the supervisor under a fair scheduler: the thread keeps running, a stop()
\* call that has begun completes, and a process asked to terminate exits
FairSpec ==
    /\ Init
    /\ [][Next]_vars
    /\ WF_vars(RunStep)
    /\ WF_vars(StopTerminate)
    /\ WF_vars(TerminatedExits)

\* the retention sweeper, the two trees, the clock and other processes
SweepSpecInit ==
    /\ SweepInit
    /\ SupIdle
    /\ SanIdle
    /\ PersistIdle
    /\ ShutIdle
    /\ LockIdle
    /\ ConcLocals
    /\ SingInit
SweepSpec == SweepSpecInit /\ [][SweepNext]_vars

\* the steps of the RetentionManager thread once it is started
SweepRunStep ==
    \/ SweepStart \/ CycleExit \/ CycleBegin \/ MoveNextDir
    \/ MoveMkdirFail \/ MoveDirsDone \/ MoveFilesDone \/ MoveGone
    \/ MoveOSError \/ MoveSkip \/ MoveRename \/ MoveCopy
    \/ MoveCopyPartial \/ MoveUnlinkFail \/ ExpireNextDir \/ ExpireDirsDone
    \/ ExpireFilesDone \/ ExpireGone \/ ExpireSkip \/ ExpireDelete
    \/ ExpireOSError \/ SleepCheck \/ SleepOne

\* sanitize_rtsp_url on bounded texts
SanSpecInit ==
    /\ SanInit
    /\ SupIdle
    /\ SweepIdle
    /\ PersistIdle
    /\ ShutIdle
    /\ LockIdle
    /\ ConcLocals
    /\ SingInit
SanSpec == SanSpecInit /\ [][SanNext]_vars

\* what the supervisor and the two loggers write
PersistSpecInit ==
    /\ PersistInit
    /\ SupIdle
    /\ SweepIdle
    /\ SanIdle
    /\ ShutIdle
    /\ LockIdle
    /\ ConcLocals
    /\ SingInit
PersistSpec == PersistSpecInit /\ [][PersistNext]_vars

\* the shutdown sequence of main() and the threads it started
ShutSpecInit ==
    /\ ShutInit
    /\ SupIdle
    /\ SweepIdle
    /\ SanIdle
    /\ PersistIdle
    /\ LockIdle
    /\ ConcLocals
    /\ SingInit
ShutSpec == ShutSpecInit /\ [][ShutNext]_vars

\* the threads that append to the shared application log
LockSpecInit ==
    /\ LockInit
    /\ SupIdle
    /\ SweepIdle
    /\ SanIdle
    /\ ShutIdle
    /\ ConcLocals
    /\ SingInit
LockSpec == LockSpecInit /\ [][LockNext]_vars

\* the recorders and the sweeper running side by side
ConcSpecInit ==
    /\ ConcInit
    /\ SupIdle
    /\ SweepIdle
    /\ SanIdle
    /\ ShutIdle
    /\ SingInit
ConcSpec == ConcSpecInit /\ [][ConcNext]_vars

\* threads calling Config() and Logger() for the first time and again
SingSpecInit ==
    /\ SingInit
    /\ SupIdle
    /\ SweepIdle
    /\ SanIdle
    /\ PersistIdle
    /\ ShutIdle
    /\ LockIdle
    /\ ConcLocals
SingSpec == SingSpecInit /\ [][SingNext]_vars

LiveProcs == {p \in Pids : procState[p] = "live"}

\* ================================================== supervisor: properties

\* C1: at every instant at most one ffmpeg process started by the supervisor
\* is live, also when an attempt ended through the exception path after
\* Popen had succeeded.
C1_AtMostOneLive == Cardinality(LiveProcs) <= 1

\* C2: once the marker scan of a drained line has set the attempt's
\* authorization-failure flag, the flag stays set, the exit transition leads
\* to a terminal state, terminal states are never left, and no further
\* attempt or subprocess is ever started.
C2_AuthHaltsForGood ==
    [][ auth_error_detected =>
          /\ auth_error_detected'
          /\ nAttempts' = nAttempts
          /\ nSpawn' = nSpawn
          /\ (pc = "exit_check" /\ pc' # pc => pc' \in Terminal)
          /\ (pc \in Terminal => pc' = pc) ]_vars

C2_Witness ==
    /\ pc = "failed_auth"
    /\ auth_error_detected
    /\ lastLog = "auth_halt"
    /\ nSpawn = 1

\* C3 as stated: with no marker match, the exit transition goes to Stopped
\* without waiting when stop is set, and otherwise waits 5s after which a new
\* attempt is started.
C3_BackoffAlwaysRetries ==
    [][ /\ (pc = "exit_check" /\ attemptEnd = "exited"
            /\ ~auth_error_detected /\ pc' # pc =>
              IF stop_event
              THEN pc' = "stopped" /\ nSleep5' = nSleep5
              ELSE pc' = "backoff" /\ lastLog' = "restarting")
        /\ (pc = "backoff" /\ pc' # pc =>
              pc' = "loop_top" /\ nSleep5' = nSleep5 + 1)
        /\ (pc = "loop_top" /\ lastLog = "restarting"
            /\ attemptEnd = "exited" /\ pc' # pc =>
              pc' = "validate" /\ nAttempts' = nAttempts + 1) ]_vars

\* C3 amended: with no marker match, the exit transition goes to Stopped
\* without waiting when stop is set, and otherwise waits 5s and returns to the
\* loop top, where a new attempt is started iff stop is still not set; a stop
\* that arrives during the backoff ends the run with no further attempt.
C3_BackoffThenLoopTop ==
    [][ /\ (pc = "exit_check" /\ attemptEnd = "exited"
            /\ ~auth_error_detected /\ pc' # pc =>
              IF stop_event
              THEN pc' = "stopped" /\ nSleep5' = nSleep5
              ELSE pc' = "backoff" /\ lastLog' = "restarting")
        /\ (pc = "backoff" /\ pc' # pc =>
              pc' = "loop_top" /\ nSleep5' = nSleep5 + 1)
        /\ (pc = "loop_top" /\ lastLog = "restarting"
            /\ attemptEnd = "exited" /\ pc' # pc =>
              IF stop_event
              THEN pc' = "stopped" /\ nAttempts' = nAttempts
              ELSE pc' = "validate" /\ nAttempts' = nAttempts + 1)
        /\ (pc = "stopped" =>
              pc' = "stopped" /\ nAttempts' = nAttempts /\ nSleep5' = nSleep5)
      ]_vars

\* a backoff was followed by a second attempt, and a stop that arrived during
\* the next backoff ended the run
C3_Witness ==
    /\ pc = "stopped"
    /\ lastLog = "restarting"
    /\ nSleep5 >= 2
    /\ nAttempts >= 2
    /\ attemptEnd = "exited"
    /\ ~auth_error_detected

\* the URL conditions named by the claim, stated on the text itself
UrlUnresolved(url) ==
    \/ Len(url) = 0
    \/ \E i \in 1..(Len(url) - Len(TokUser) + 1) :
          \A k \in 1..Len(TokUser) : url[i + k - 1] = TokUser[k]
    \/ \E i \in 1..(Len(url) - Len(TokPassword) + 1) :
          \A k \in 1..Len(TokPassword) : url[i + k - 1] = TokPassword[k]

C5_StopBeforeStart ==
    stopBeforeStart =>
        /\ ~stopRaised
        /\ nAttempts = 0
        /\ nSpawn = 0
        /\ nSleep5 = 0
        /\ nSleep10 = 0
        /\ pc \in {"not_started", "enabled_check", "loop_top", "stopped",
                   "disabled"}

C5_Witness ==
    /\ stopBeforeStart
    /\ enabled
    /\ pc = "stopped"
    /\ stopCalls >= 1

\* C6: once a stop() call has completed, every live ffmpeg process the
\* supervisor started has been sent a termination request.
C6_StopTerminatesLive ==
    stopCalls >= 1 => \A p \in LiveProcs : termReq[p]

\* ===================================================== sweeper: properties
\* run() is between two cycles, or has returned
BetweenCycles == cycles >= 1 /\ swPc \in {"sleep", "sleeping", "top", "done"}

\* the cycle that just ended met no I/O error and no outside change
CleanCycleEnded == swPc \in {"sleep", "sleeping"} /\ cycleClean

\* C7: after any sequence of sweep cycles, moves by copy-then-remove and moves
\* that fail part-way included, no file is present in both the primary and
\* the backup directory of its camera.
C7_OneTierOnly == BetweenCycles => primary \cap backup = {}

\* C8: a cycle computed at `now` that meets no I/O failure leaves every file
\* that was in primary with now-(P+B) <= mtime < now-P absent from primary and
\* present in the backup directory of the same camera, and leaves no file that
\* was in backup with mtime < now-(P+B).
C8_OneCycle ==
    CleanCycleEnded =>
        /\ \A e \in startPrimary :
              ( /\ e[2] < now - retention_days
                /\ e[2] >= now - (retention_days + backup_retention_days) )
              => /\ e[1] \notin primary
                 /\ e[1] \in backup
                 /\ bMtime[e[1]] = e[2]
        /\ \A e \in startBackup :
              e[2] < now - (retention_days + backup_retention_days)
              => e[1] \notin backup

\* one cycle moved an aged primary file of one camera and deleted an older
\* backup file of the other
C8_Witness ==
    /\ CleanCycleEnded
    /\ retention_days = 1
    /\ backup_retention_days = 1
    /\ \E e \in startPrimary :
          /\ e[2] = now - 2
          /\ e[1] \in movedNow
          /\ e[1] \in backup
          /\ \E d \in startBackup :
                d[2] = now - 3 /\ d[1] \in deletedNow /\ d[1] # e[1]

\* C9 as stated: with a backup window of zero the two cutoffs are equal, and
\* a file moved to backup becomes eligible for deletion only in the cycle
\* after the one that moved it: no cycle deletes a file it moved itself.
C9_DeletedOnlyByLaterCycle ==
    backup_retention_days = 0 =>
        /\ delete_cutoff = move_cutoff
        /\ movedNow \cap deletedNow = {}

\* C9 amended: with a backup window of zero the two cutoffs are equal, and a
\* file moved to backup is eligible for deletion already in the expire phase
\* of the cycle that moved it: a cycle without I/O failure deletes every file
\* it moved.
C9_ZeroBackupWindow ==
    backup_retention_days = 0 =>
        /\ delete_cutoff = move_cutoff
        /\ \A f \in movedNow \cap backup : bMtime[f] < delete_cutoff
        /\ (CleanCycleEnded => movedNow \subseteq deletedNow)

C9_Witness ==
    /\ backup_retention_days = 0
    /\ retention_days = 1
    /\ CleanCycleEnded
    /\ movedNow # {}
    /\ movedNow \subseteq deletedNow
    /\ move_cutoff = now - 1

\* =================================================== sanitizer: properties
IsPrefix(p, s) == Len(p) <= Len(s) /\ SubSeq(s, 1, Len(p)) = p

\* C10: for a text holding scheme://user:pw@host/path the output holds
\* neither the user nor the password, and holds the two placeholder tokens
\* in their place with the scheme, the host and the path unchanged.
C10_CredentialsReplaced ==
    sanPc # "input" =>
        /\ ~IsInfix(san_in.user, san_out)
        /\ ~IsInfix(san_in.pw, san_out)
        /\ IsPrefix(san_in.pre \o san_in.scheme \o <<":","/","/">>
                      \o PlaceholderUser \o <<":">> \o PlaceholderPassword
                      \o <<"@">> \o san_in.host \o san_in.path,
                    san_out)

\* C11: sanitize_rtsp_url is idempotent: sanitizing its own output changes
\* nothing, for texts with several URLs and with "@" or ":" in the password
\* included.
C11_Idempotent == sanPc = "twice" => san_twice = san_out

\* a text with two URLs, the first with "@" in its password, sanitized twice,
\* whose first pass made a substitution
C11_Witness ==
    /\ sanPc = "twice"
    /\ san_in.scheme = <<"r","t","s","p">>
    /\ "@" \in { san_in.pw[k] : k \in 1..Len(san_in.pw) }
    /\ IsInfix(RtspHead, san_in.post)
    /\ san_out # UrlText(san_in)
    /\ san_twice = san_out

\* what follows the URL, with the credentials of a URL in it redacted
RedactedPost(post) ==
    IF IsInfix(RtspHead, post)
    THEN <<" ","r","t","s","p",":","/","/","$","R","T","S","P","_","U","S","E","R",":","$","R","T","S","P","_","P","A","S","S","W","O","R","D","@","g","/","t">>
    ELSE post

\* C12: every credential-bearing rtsp:// URL of one text is redacted, and the
\* credentials end at the last "@" before the host, so that nothing of a
\* password holding "@" is left: the output is the text with user:password of
\* each URL replaced by the two placeholder tokens.
C12_LastAtAnchors ==
    (sanPc # "input" /\ san_in.scheme = <<"r","t","s","p">>) =>
        san_out = san_in.pre \o Replacement \o san_in.host \o san_in.path
                    \o RedactedPost(san_in.post)

\* ============================================== persisted text: properties
\* the per-source log that the lines read so far should have produced: one
\* sanitized line for each line read whose write did not raise, in order
RECURSIVE ExpectedCameraLog(_, _)
ExpectedCameraLog(lines, i) ==
    IF i > Len(lines) THEN << >>
    ELSE (IF i \in lostLines THEN << >>
          ELSE << sanitize_rtsp_url(lines[i]) \o NL >>)
         \o ExpectedCameraLog(lines, i + 1)

NewlinesIn(s) == Cardinality({ k \in 1..Len(s) : s[k] = "\n" })

\* C13: every string persisted is the sanitizer's output: the per-source log
\* holds exactly one line sanitize(raw line) for each line read, in the order
\* received, and the echoed command line and every message of the shared
\* application log are written as the sanitizer's output for them.
C13_PersistedIsSanitized ==
    /\ cameraLog = ExpectedCameraLog(rawLines, 1)
    /\ \A k \in 1..Len(cameraLog) : NewlinesIn(cameraLog[k]) = 1
    /\ Len(appLog) = Len(appMsgs)
    /\ \A i \in 1..Len(appLog) :
          appLog[i].text \in
             { HandlerPrefix \o sanitize_rtsp_url(appMsgs[i]) \o NL,
               LoggerPrefix \o sanitize_rtsp_url(appMsgs[i]) \o NL }

\* two lines were read and written, the first one changed by the sanitizer;
\* the command echo was written with its credentials replaced and the sweeper
\* wrote a line to the same file
C13_Witness ==
    /\ Len(rawLines) = 2
    /\ Len(cameraLog) = 2
    /\ cameraLog[1] # rawLines[1] \o NL
    /\ Len(appLog) = 2
    /\ appLog[1].text # HandlerLine(appMsgs[1])
    /\ IsInfix(PlaceholderPassword, appLog[1].text)
    /\ appLog[2].sink = "file"
    /\ appLog[2].text = LoggerLine(appMsgs[2])

\* ================================================ sweeper: error handling
\* C14: a permission or I/O error other than file-not-found, raised while one
\* file is moved or deleted, is logged, leaves the file in the tier it was in
\* and does not end the sweep: run() goes on with the files left in the
\* cycle.
C14_IOErrorNonFatal ==
    [][ /\ (MoveOSError \/ MoveCopyPartial \/ MoveUnlinkFail)
            => /\ swLog' = "move_failed"
               /\ primary \subseteq primary'
               /\ swPc' = "move_files"
        /\ ExpireOSError
            => /\ swLog' \notin {swLog, "deleted"}
               /\ backup \subseteq backup'
               /\ swPc' = "expire_files" ]_vars

\* C15: a file that vanished between the listing and its move or deletion is
\* ignored silently: nothing is given to the log for it and run() goes on
\* with the next file.
C15_VanishedIsSilent ==
    [][ \A f \in Files :
          ( /\ swPc \in {"move_files", "expire_files"}
            /\ f \in fileTodo
            /\ f \notin fileTodo'
            /\ f \notin (IF swPc = "move_files" THEN primary ELSE backup) )
          => /\ swLog' = swLog
             /\ swPc' = swPc ]_vars

\* C18: in the wait between two cycles the stop flag is checked before each
\* one-second sleep: after stop() at most one more sleep step is taken, the
\* check that follows leaves the wait, and the loop test ends run().
C18_StopWithinOneSleep ==
    [][ /\ sleepsAfterStop' <= 1
        /\ (sw_stop /\ swPc = "sleep") => swPc' \in {"sleep", "top"}
        /\ (sw_stop /\ swPc = "top") => swPc' \in {"top", "done"} ]_vars

\* stop() came between the check and the sleep: one more sleep was taken and
\* run() has returned
C18_Witness ==
    /\ sw_stop
    /\ sleepsAfterStop = 1
    /\ sleepLeft > 0
    /\ swPc = "done"

\* ============================================ supervisor: failure handling
\* C16: a failure to start the subprocess is caught and logged, leaves the
\* authorization flag false, and is followed, as an ordinary exit is, by the
\* 5s backoff and a new attempt unless stop was requested; it never leads to
\* FailedAuth.
C16_SpawnFailureIsTransient ==
    [][ /\ (pc = "spawn" /\ pc' = "exit_check" =>
              /\ lastLog' = "error"
              /\ ~auth_error_detected'
              /\ nSpawn' = nSpawn)
        /\ (pc = "exit_check" /\ attemptEnd = "spawn_failed" /\ pc' # pc =>
              IF stop_event
              THEN pc' = "stopped" /\ nSleep5' = nSleep5
              ELSE pc' = "backoff" /\ lastLog' = "restarting")
        /\ (pc = "backoff" /\ attemptEnd = "spawn_failed" /\ pc' # pc =>
              pc' = "loop_top" /\ nSleep5' = nSleep5 + 1)
        /\ (pc = "loop_top" /\ attemptEnd = "spawn_failed"
            /\ lastLog = "restarting" /\ pc' # pc =>
              IF stop_event
              THEN pc' = "stopped" /\ nAttempts' = nAttempts
              ELSE pc' = "validate" /\ nAttempts' = nAttempts + 1)
        /\ (attemptEnd = "spawn_failed" => pc' # "failed_auth")
      ]_vars

\* Popen raised, the backoff was taken and a new attempt has begun
C16_Witness ==
    /\ attemptEnd = "spawn_failed"
    /\ pc = "validate"
    /\ lastLog = "restarting"
    /\ nSleep5 = 1
    /\ nAttempts = 2
    /\ nSpawn = 0
    /\ ~auth_error_detected

\* C17: a supervisor whose source is not enabled enters Disabled as soon as
\* it runs and stays there: no attempt, no subprocess and no backoff wait,
\* whatever stop requests arrive.
C17_DisabledIsTerminal ==
    [][ ~enabled =>
          /\ pc' \in {"not_started", "enabled_check", "disabled"}
          /\ (pc = "enabled_check" /\ pc' # pc => pc' = "disabled")
          /\ (pc = "disabled" => pc' = "disabled")
          /\ nAttempts' = 0
          /\ nSpawn' = 0
          /\ nSleep5' = 0
          /\ nSleep10' = 0
          /\ LiveProcs = {} ]_vars

\* a disabled supervisor was started, skipped its camera and was then stopped
C17_Witness ==
    /\ ~enabled
    /\ pc = "disabled"
    /\ lastLog = "skipping"
    /\ stopCalls >= 1
    /\ ~stopBeforeStart
    /\ stop_event

\* ========================================================= main: shutdown
\* C19: at shutdown stop() is called on the cleaner and on every recorder
\* before main begins to wait in join() on any of them.
C19_AllSignalledBeforeJoin == joinCalled # {} => stopCalled = Units

\* main waits in join() on the second recorder, which has not ended yet,
\* after every unit was told to stop
C19_Witness ==
    /\ nRecorders = 2
    /\ mainPc = "joining_rec"
    /\ recIdx = 2
    /\ joinCalled = {0, 1, 2}
    /\ 2 \notin finished
    /\ stopCalled = Units

\* ============================================================ shared log
\* the threads that are between opening (or being handed) the log file and
\* the end of their append to it
InAppend == { t \in Writers : wPc[t] \in {"emit", "emitted", "open", "write", "close"} }

\* C20: appends to the shared application log are serialized: at most one
\* thread at a time, recorder or sweeper, is inside the append section of
\* nvr.log, whether or not the path of the log file is configured.
C20_AppendsSerialized == Cardinality(InAppend) <= 1

\* ======================================================= sweeper: cutoffs
\* C21 as stated: in every cycle the two cutoffs satisfy
\* move_cutoff <= delete_cutoff.
C21_MoveCutoffNotAfterDelete == cycles >= 1 => move_cutoff <= delete_cutoff

\* C21 amended: in every cycle the two cutoffs satisfy
\* delete_cutoff <= move_cutoff, for every primary window >= 0 and backup
\* window >= 0, with equality exactly when the backup window is zero.
C21_DeleteCutoffNotAfterMove ==
    cycles >= 1 =>
        /\ move_cutoff = now - retention_days
        /\ delete_cutoff = move_cutoff - backup_retention_days
        /\ delete_cutoff <= move_cutoff
        /\ (delete_cutoff = move_cutoff <=> backup_retention_days = 0)

\* a cycle computed its cutoffs with a backup window of one day
C21_Witness ==
    /\ cycles >= 1
    /\ retention_days = 1
    /\ backup_retention_days = 1
    /\ now = MaxClock
    /\ move_cutoff = now - 1
    /\ delete_cutoff = now - 2

\* the modification times a file of the model can carry
Mtimes == 0..MaxClock

\* C22: in every cycle the age a file must exceed to be deleted is at least
\* the age it must exceed to be moved: every modification time that meets the
\* delete condition mtime < delete_cutoff meets the move condition
\* mtime < move_cutoff.
C22_DeleteAgeAtLeastMoveAge ==
    cycles >= 1 =>
        /\ now - delete_cutoff >= now - move_cutoff
        /\ \A m \in Mtimes :
              DeleteDue(m, delete_cutoff) => MoveDue(m, move_cutoff)

\* a cycle in which one modification time meets both conditions and another
\* meets the move condition alone
C22_Witness ==
    /\ cycles >= 1
    /\ backup_retention_days >= 1
    /\ \E m \in Mtimes : DeleteDue(m, delete_cutoff)
    /\ \E m \in Mtimes :
          MoveDue(m, move_cutoff) /\ ~DeleteDue(m, delete_cutoff)

\* ======================================== supervisor: the exit transition
\* C23: at the exit transition the stop flag takes precedence over the
\* authorization-failure flag: with stop set the supervisor ends in Stopped
\* and the authorization halt is not reported, also when the flag is set;
\* FailedAuth is reached only with the flag set and stop not set; the backoff
\* is taken only when neither holds.
C23_StopBeforeAuth ==
    [][ (pc = "exit_check" /\ pc' # pc) =>
          /\ pc' \in {"stopped", "failed_auth", "backoff"}
          /\ (stop_event => pc' = "stopped" /\ lastLog' = lastLog)
          /\ (pc' = "failed_auth" <=> (auth_error_detected /\ ~stop_event))
          /\ (pc' = "failed_auth" => lastLog' = "auth_halt")
          /\ (pc' = "backoff" <=> (~auth_error_detected /\ ~stop_event))
      ]_vars

\* a marker was seen, stop was requested before the exit transition, and the
\* run ended in Stopped with the exit of the process as its last message
C23_Witness ==
    /\ pc = "stopped"
    /\ auth_error_detected
    /\ stop_event
    /\ attemptEnd = "exited"
    /\ lastLog = "exited"

\* ================================================ supervisor: termination
\* C24: after stop is requested on a supervisor that has been started, the
\* supervisor eventually reaches a terminal state, under weak fairness and
\* given that a subprocess asked to terminate exits and closes its output,
\* wherever in the loop the request arrives.
C24_StopLeadsToTerminal ==
    (stop_event /\ pc # "not_started") ~> (pc \in Terminal)

\* ============================================ supervisor: cancellation points
\* C25: the stop flag is checked at the top of the loop, after each drained
\* line, and at every second of the waits: during the 5s backoff and the 10s
\* invalid-URL delay a stop request is observed within one second of sleep.
C25_StopSeenEverySecond ==
    [][ /\ (pc = "loop_top" /\ pc' # pc =>
              IF stop_event THEN pc' = "stopped" ELSE pc' = "validate")
        /\ (pc = "drain" /\ stop_event /\ pc' # pc =>
              pc' \in {"wait", "exit_check"})
        /\ sleptAfterStop' <= 1 ]_vars

\* ============================================== supervisor: what ends run()
\* run() has returned or died
Ended == Terminal \cup {"crashed"}

\* C26: transient conditions are retried without bound: the loop of an
\* enabled supervisor ends only because stop was requested or a marker was
\* seen; no unresolved URL, spawn failure, crash or non-zero exit, and no
\* other error raised inside the loop, moves it to a terminal state or ends
\* its thread, and each wait leads back to the loop top and a new attempt.
C26_OnlyStopOrAuthEndsLoop ==
    [][ /\ (enabled /\ pc \notin Ended /\ pc' \in Ended) =>
              (stop_event \/ auth_error_detected)
        /\ (pc \in {"sleep10", "backoff"} /\ pc' # pc) => pc' = "loop_top"
        /\ (pc = "loop_top" /\ ~stop_event /\ pc' # pc) =>
              nAttempts' = nAttempts + 1 ]_vars

\* ======================================= supervisor: the authorization flag
\* two characters are the same letter, whatever their case
SameLetter(a, b) ==
    \/ a = b
    \/ a \in DOMAIN UpperToLower /\ UpperToLower[a] = b
    \/ b \in DOMAIN UpperToLower /\ UpperToLower[b] = a

\* the line holds one of the fixed markers, case ignored
HoldsMarker(line) ==
    \E m \in auth_error_markers :
        \E i \in 0..(Len(line) - Len(m)) :
            \A k \in 1..Len(m) : SameLetter(line[i + k], m[k])

\* C27: the authorization-failure flag is scoped to one attempt and sticky
\* within it: it is false when an attempt begins, becomes true exactly when a
\* drained raw line holds one of the markers, case ignored, and once true
\* stays true whatever lines follow; lines left unread when the loop stopped
\* early, and steps other than the scan of a line, do not change it.
C27_AuthFlagPerAttempt ==
    [][ /\ ValidateOk => ~auth_error_detected'
        /\ pc = "spawn" => ~auth_error_detected
        /\ DrainLine =>
              auth_error_detected' =
                 (auth_error_detected \/ HoldsMarker(OutputLines[Head(pipe)]))
        /\ (~DrainLine /\ ~ValidateOk) =>
              auth_error_detected' = auth_error_detected
        /\ (auth_error_detected /\ pc \in {"drain", "wait", "exit_check"}) =>
              auth_error_detected' ]_vars

\* in the second attempt of a run two lines were drained and the flag is set
C27_Witness ==
    /\ nAttempts = 2
    /\ nSpawn = 2
    /\ pc = "drain"
    /\ emitted = 2
    /\ pipe = <<>>
    /\ auth_error_detected
    /\ lastLog = "starting"

\* ================================================== units side by side
\* recorder r is blocked reading the output of its subprocess, or blocked
\* waiting for the subprocess to exit
BlockedOnProc(r) ==
    \/ uPc[r] = "drain" /\ uPipe[r] = 0 /\ uProc[r] = "live"
    \/ uPc[r] = "wait" /\ uProc[r] # "exited"

\* unit u waits on its own subprocess or on its own sleep
WaitsOnOwn(u) ==
    IF u = "sweeper" THEN uPc[u] = "sleep"
    ELSE BlockedOnProc(u) \/ uPc[u] = "backoff"

\* unit u waits for the lock of the log it appends to, which unit h holds
WaitsForLogHeldBy(u, h) ==
    IF u = "sweeper"
    THEN uPc[u] = "log" /\ log_file_path # "None" /\ log_lock = h
    ELSE uPc[u] \in {"log_start", "log_exit"} /\ handler_lock = h

\* C28 as stated: in every state where one supervisor is blocked in drain,
\* every other unit that is not itself waiting on its own subprocess or sleep
\* remains enabled.
C28_OthersStayEnabled ==
    \A r \in ConcRecorders :
        BlockedOnProc(r) =>
            \A u \in AllUnits \ {r} : WaitsOnOwn(u) \/ ENABLED UnitStep(u)

\* C28 amended: a supervisor blocked in drain holds no lock of the shared
\* log, and every other unit that is not waiting on its own subprocess or
\* sleep is enabled, or waits for the lock of the shared log while a third
\* unit, itself enabled, is appending to it.
C28_DrainBlocksNobody ==
    \A r \in ConcRecorders :
        BlockedOnProc(r) =>
            /\ handler_lock # r
            /\ log_lock # r
            /\ \A u \in AllUnits \ {r} :
                  \/ WaitsOnOwn(u)
                  \/ ENABLED UnitStep(u)
                  \/ \E h \in AllUnits \ {r, u} :
                        /\ WaitsForLogHeldBy(u, h)
                        /\ ENABLED UnitStep(h)

\* one recorder is blocked reading, a second is appending to the shared log
\* and the third waits for the log's lock; the sweeper is in its scan
C28_Witness ==
    /\ uPc["cam1"] = "drain" /\ uPipe["cam1"] = 0 /\ uProc["cam1"] = "live"
    /\ uPc["cam2"] = "emit_exit" /\ handler_lock = "cam2"
    /\ uPc["cam3"] = "log_start"
    /\ uPc["sweeper"] = "scan"

\* ================================================ supervisor: repeated stop
\* C29: stop() is idempotent: called two or more times, before the start,
\* with a live subprocess, after its exit or after run() has ended, it raises
\* nothing, and the run ends as it does with the first call alone: no attempt
\* begins once the first call has set the flag, the only terminal state then
\* entered is Stopped (Disabled for a disabled source), a terminal state is
\* never left, and a repeated call changes nothing of run()'s own state.
C29_StopIdempotent ==
    [][ /\ ~stopRaised'
        /\ stop_event => stop_event'
        /\ stop_event => nAttempts' = nAttempts /\ nSpawn' <= nSpawn + 1
        /\ (stop_event /\ pc \notin Terminal /\ pc' \in Terminal) =>
              pc' = IF enabled THEN "stopped" ELSE "disabled"
        /\ pc \in Terminal => pc' = pc
        /\ (stopCalls >= 1 /\ (StopSet \/ StopTerminate)) =>
              UNCHANGED << pc, stop_event, proc, procState, pipe,
                           auth_error_detected, nAttempts, nSpawn, nSleep5,
                           nSleep10, lastLog, attemptEnd >> ]_vars

\* stop() was called twice, once while the first ffmpeg was live, and the run
\* ended in Stopped after its one attempt
C29_Witness ==
    /\ stopCalls = 2
    /\ ~stopBeforeStart
    /\ pc = "stopped"
    /\ nAttempts = 1
    /\ nSpawn = 1
    /\ termReq[1]
    /\ procState[1] = "exited"

\* ================================================ sweeper: age conditions
\* C30: the sweeper acts on a file only when the strict age condition holds
\* at the cycle's computed time: a primary file is moved (or copied to the
\* backup tier) only if its mtime < now - P, is never deleted from the
\* primary tier, and a file is deleted only from the backup tier and only if
\* its mtime < now - (P + B); a file whose mtime equals or is later than the
\* cutoff is left where it is, in every cycle.
C30_OnlyAgedFilesTouched ==
    [][ \A f \in Files :
          /\ (f \in primary /\ f \notin primary' /\ ~EnvRemovePrimary) =>
                /\ pMtime[f] < now - retention_days
                /\ DestOf(f[1], f) \in backup'
                /\ bMtime'[DestOf(f[1], f)] = pMtime[f]
          /\ (f \notin backup /\ f \in backup') =>
                /\ f \in primary
                /\ pMtime[f] < now - retention_days
          /\ (f \in backup /\ f \notin backup' /\ ~EnvRemoveBackup) =>
                bMtime[f] < now - (retention_days + backup_retention_days)
      ]_vars

\* a cycle left a primary file whose mtime equals move_cutoff where it was,
\* and moved an older one, whose mtime equals delete_cutoff, without deleting
\* it
C30_Witness ==
    /\ CleanCycleEnded
    /\ backup_retention_days = 1
    /\ \E e \in startPrimary, d \in startPrimary :
          /\ e[2] = move_cutoff
          /\ e[1] \in primary
          /\ d[2] < move_cutoff
          /\ d[2] = delete_cutoff
          /\ d[1] \in movedNow
          /\ d[1] \in backup

\* ================================================ sweeper: phases of a cycle
\* C31: within a cycle the move phase is over before the expire phase starts
\* and a move keeps the file's modification time, so a primary file whose
\* mtime is below delete_cutoff when the cycle starts is moved and then
\* deleted by that same cycle; with a backup window of zero no file moved in
\* a cycle is still in the backup tier when the cycle ends. The last two
\* parts are for cycles without I/O failure or outside change.
C31_MovedThenDeletedInCycle ==
    /\ swPc \in {"move_dirs", "move_files"} => deletedNow = {}
    /\ \A f \in movedNow \cap backup :
          \E e \in startPrimary : e[1] = f /\ bMtime[f] = e[2]
    /\ CleanCycleEnded =>
          \A e \in startPrimary :
             e[2] < delete_cutoff =>
                /\ e[1] \in movedNow
                /\ e[1] \in deletedNow
                /\ e[1] \notin primary
                /\ e[1] \notin backup
    /\ (CleanCycleEnded /\ backup_retention_days = 0) =>
          movedNow \cap backup = {}

\* with both windows at one day and the two trees on different filesystems,
\* a cycle moved a primary file older than delete_cutoff and deleted it, and
\* left a younger moved file in the backup tier
C31_Witness ==
    /\ CleanCycleEnded
    /\ backup_retention_days = 1
    /\ crossFs
    /\ \E e \in startPrimary, d \in startPrimary :
          /\ e[2] < delete_cutoff
          /\ e[1] \in movedNow
          /\ e[1] \in deletedNow
          /\ e[1] \notin backup
          /\ d[2] = delete_cutoff
          /\ d[1] \in movedNow
          /\ d[1] \in backup

\* ================================================== sweeper: stop flag
\* the positions of run() inside a cycle
InCycle == {"move_dirs", "move_files", "expire_dirs", "expire_files"}

\* a bound on the steps run() still takes once the stop flag is set: the
\* files and directories left in the cycle, then the sleep check, then the
\* loop test
SweepRank ==
    LET K == Cardinality(Files) + 2
        E == 5 + Cardinality(Cams) * K
    IN  CASE swPc \in {"done", "crashed"} -> 0
          [] swPc = "top" -> 1
          [] swPc = "sleep" -> 2
          [] swPc = "sleeping" -> 3
          [] swPc = "expire_dirs" -> 4 + Cardinality(camTodo) * K
          [] swPc = "expire_files" ->
                5 + Cardinality(camTodo) * K + Cardinality(fileTodo)
          [] swPc = "move_dirs" -> E + Cardinality(camTodo) * K
          [] swPc = "move_files" ->
                E + 1 + Cardinality(camTodo) * K + Cardinality(fileTodo)
          [] swPc = "not_started" -> 2 * E + 2

\* C32: the sweeper looks at the stop flag only at the top of a cycle and
\* between one-second sleep steps. Once stop is set no new cycle begins and
\* run() ends; a stop set before the sweeper starts gives zero cycles; a stop
\* set while a cycle is in progress does not interrupt it: the cycle is left
\* only at its end and its remaining moves and deletions are carried out.
\* That run() ends is stated by a rank: with the flag set the thread always
\* has a step to take until it has ended, and each of its steps lowers
\* SweepRank.
C32_StopSeenBetweenCycles ==
    /\ [][ /\ sw_stop => cycles' = cycles
           /\ (sw_stop /\ swPc = "top") => swPc' \in {"top", "done"}
           /\ (sw_stop /\ swPc = "sleep") => swPc' \in {"sleep", "top"}
           /\ (swPc \in InCycle /\ swPc' \notin InCycle)
                 => swPc' \in {"sleep", "crashed"} ]_vars
    /\ [](stopCalledIn = "not_started" => cycles = 0)
    /\ []( (sw_stop /\ CleanCycleEnded) =>
             /\ \A e \in startPrimary :
                   e[2] < move_cutoff => e[1] \in movedNow
             /\ \A e \in startBackup :
                   e[2] < delete_cutoff => e[1] \in deletedNow )
    /\ []( (sw_stop /\ swPc \notin {"done", "crashed"})
              => ENABLED SweepRunStep )
    /\ [][ (sw_stop /\ SweepRunStep) => SweepRank' < SweepRank ]_vars

\* stop() was called in the move phase of the first cycle; the cycle went
\* on, moved a primary file, deleted a backup file in the expire phase that
\* followed, and the sleep loop after it has not slept
C32_Witness ==
    /\ stopCalledIn = "move"
    /\ CleanCycleEnded
    /\ sleepsAfterStop = 0
    /\ movedNow # {}
    /\ deletedNow # {}
    /\ movedNow \cap deletedNow = {}
    /\ cycles = 1

\* ================================================ sweeper: frame of phases
\* a step of another process on the two trees
OutsideChange == EnvCreate \/ EnvRemovePrimary \/ EnvRemoveBackup

\* C33: the move phase never deletes a file and never changes or removes a
\* file already in the backup tier, other than by adding moved files; the
\* expire phase never touches the primary tier; so a file leaves the primary
\* tier only by being moved to the backup directory of the same camera name,
\* and a file is only ever deleted from the backup tier.
C33_PhaseFrames ==
    [][ ~OutsideChange =>
          /\ swPc \in {"move_dirs", "move_files"} =>
                /\ \A f \in primary \cup backup : f \in primary' \cup backup'
                /\ \A f \in backup :
                      /\ f \in backup'
                      /\ \/ bMtime'[f] = bMtime[f]
                         \/ /\ f \in primary
                            /\ f \notin primary'
                            /\ bMtime'[f] = pMtime[f]
                /\ \A f \in backup' \ backup :
                      /\ f \in primary
                      /\ f \notin primary'
                      /\ bMtime'[f] = pMtime[f]
          /\ swPc \in {"expire_dirs", "expire_files"} =>
                /\ primary' = primary
                /\ pMtime' = pMtime
          /\ \A f \in primary \ primary' :
                /\ swPc = "move_files"
                /\ f[1] = curCam
                /\ DestOf(f[1], f) \in backup'
          /\ \A f \in backup \ backup' : swPc = "expire_files"
      ]_vars

\* ===================================================== singleton: properties
\* C34: under any interleaving of concurrent first-time constructions of one
\* Singleton subclass by several threads, exactly one object is created for
\* the class and every constructor call returns that object; Config and
\* Logger get distinct objects.
C34_OneInstancePerClass ==
    /\ \A c \in Classes :
          /\ created[c] <= 1
          /\ created[c] = 1 <=> instance[c] # 0
    /\ \A r \in returned :
          /\ created[r[1]] = 1
          /\ r[2] = instance[r[1]]
    /\ \A r, q \in returned : (r[1] = q[1]) <=> (r[2] = q[2])

\* three threads were inside __new__ of Logger before its instance existed:
\* one has created it and returned it, one holds the lock after the repeated
\* test found it, one still waits for the lock; Config has been constructed
\* and returned as well
C34_Witness ==
    /\ created = [c \in Classes |-> 1]
    /\ << "Logger", instance["Logger"] >> \in returned
    /\ << "Config", instance["Config"] >> \in returned
    /\ \E t \in Threads : cPc[t] = "release" /\ cCls[t] = "Logger"
    /\ \E t \in Threads : cPc[t] = "acquire" /\ cCls[t] = "Logger"

====
